---- MODULE Spec2Model ----
(***************************************************************************)
(* Model of the career-companion-ai job pipeline: the match scorers of the *)
(* LinkedIn adder, the pending-job processor and the discovery engine, the *)
(* priority bucketing, the connection finder, the application kit parser   *)
(* with its content selector, the template engine that renders resumes and *)
(* cover letters, and the flows that write tracker rows.                   *)
(*                                                                         *)
(* Python values are modelled as tagged records: a string is S("..."), the *)
(* none value is None, a list is L(<<...>>) and a dict is D(f) with f a    *)
(* function from the keys present to their values.  A job record is such a *)
(* function itself, so "key in job" is key \in DOMAIN job.                 *)
(*                                                                         *)
(* Scores are kept in units of 1/Scale.  Every weight, factor and          *)
(* threshold of the scorers is a multiple of 1/Scale, and for every        *)
(* combination of branches the binary floating-point sum of the source     *)
(* lies on the same side of 0.50, 0.70 and 1.0 as the exact sum.           *)
(***************************************************************************)
EXTENDS Integers, Sequences, FiniteSets, TLC

VARIABLES
    sjob,       \* scorer harness: the job record handed to a scorer
    sres,       \* scorer harness: what the scorer call produced
    flow,       \* orchestrator: which program runs (adder, pending, discovery, manual)
    pc,         \* orchestrator: position inside the flow
    queue,      \* orchestrator: jobs still to be processed
    cur,        \* orchestrator: the job record being processed
    events,     \* orchestrator: calls made for the current job, in order
    tracker,    \* orchestrator: rows appended to the tracker sheet
    handled     \* orchestrator: number of jobs taken from the queue so far

scorerVars == <<sjob, sres>>
flowVars == <<flow, pc, queue, cur, events, tracker, handled>>
vars == <<sjob, sres, flow, pc, queue, cur, events, tracker, handled>>

(***************************************************************************)
(* Python values                                                           *)
(***************************************************************************)
None == [t |-> "none"]
S(s) == [t |-> "str", s |-> s]
L(items) == [t |-> "list", items |-> items]
D(f) == [t |-> "dict", d |-> f]
Num(n) == [t |-> "num", n |-> n]

EmptyDict == [k \in {} |-> None]

\* dict.get(key, default)
Get(d, key, default) == IF key \in DOMAIN d THEN d[key] ELSE default

\* d[key] = value
Put(d, key, value) ==
    [k \in (DOMAIN d) \cup {key} |-> IF k = key THEN value ELSE d[k]]

\* Python truth value of a model value
Truthy(v) ==
    CASE v.t = "none" -> FALSE
      [] v.t = "str"  -> v.s # ""
      [] v.t = "list" -> Len(v.items) > 0
      [] v.t = "dict" -> DOMAIN v.d # {}
      [] v.t = "num"  -> v.n # 0
      [] OTHER        -> TRUE

(***************************************************************************)
(* Strings: str.lower() and the substring test "kw in text"                *)
(***************************************************************************)
ToLower ==
    [c \in {"A","B","C","D","E","F","G","H","I","J","K","L","M",
            "N","O","P","Q","R","S","T","U","V","W","X","Y","Z"} |->
        CASE c = "A" -> "a" [] c = "B" -> "b" [] c = "C" -> "c" [] c = "D" -> "d"
          [] c = "E" -> "e" [] c = "F" -> "f" [] c = "G" -> "g" [] c = "H" -> "h"
          [] c = "I" -> "i" [] c = "J" -> "j" [] c = "K" -> "k" [] c = "L" -> "l"
          [] c = "M" -> "m" [] c = "N" -> "n" [] c = "O" -> "o" [] c = "P" -> "p"
          [] c = "Q" -> "q" [] c = "R" -> "r" [] c = "S" -> "s" [] c = "T" -> "t"
          [] c = "U" -> "u" [] c = "V" -> "v" [] c = "W" -> "w" [] c = "X" -> "x"
          [] c = "Y" -> "y" [] c = "Z" -> "z"]

LowerChar(c) == IF c \in DOMAIN ToLower THEN ToLower[c] ELSE c

RECURSIVE Lower(_)
Lower(str) ==
    IF str = "" THEN ""
    ELSE LowerChar(SubSeq(str, 1, 1)) \o Lower(SubSeq(str, 2, Len(str)))

\* kw in text
Contains(text, kw) ==
    \E i \in 1..(Len(text) - Len(kw) + 1) : SubSeq(text, i, i + Len(kw) - 1) = kw

\* any(term in text for term in terms)
ContainsAny(text, terms) == \E term \in terms : Contains(text, term)

\* sum(1 for kw in keywords if kw in text), the keywords being distinct
CountIn(text, keywords) == Cardinality({kw \in keywords : Contains(text, kw)})

Min(a, b) == IF a <= b THEN a ELSE b

(***************************************************************************)
(* Scores                                                                  *)
(***************************************************************************)
\* the score 1.0, in score units
Scale == 10000

\* self.target_companies of the discovery engine
target_companies ==
    {"OpenAI", "Anthropic", "Google", "Meta", "Microsoft", "Amazon",
     "Apple", "Netflix", "Spotify", "Stripe", "Databricks", "Snowflake",
     "Palantir", "Scale AI", "Cohere", "Stability AI", "Runway",
     "Character AI", "Perplexity", "Midjourney", "Inflection AI"}

\* value.lower() raises AttributeError unless the value is a string
IsStr(v) == v.t = "str"

\* what a scorer call leaves behind: the five increments of score in the
\* order they are added, their sum, and the value returned, min(score, 1.0).
\* (The increments are bound once, by membership in a singleton.)
ScoreRecord(increments) ==
    CHOOSE r \in { [raised |-> FALSE,
                    score |-> Min(c[1] + c[2] + c[3] + c[4] + c[5], Scale),
                    sum |-> c[1] + c[2] + c[3] + c[4] + c[5],
                    title |-> c[1], seniority |-> c[2], technical |-> c[3],
                    location |-> c[4], personal |-> c[5]] : c \in {increments} } : TRUE

(***************************************************************************)
(* LinkedInJobAdder._calculate_match_score                                 *)
(***************************************************************************)
Adder_weights ==
    [title_match |-> 2500, seniority_match |-> 2000, technical_match |-> 2500,
     location_match |-> 1500, personal_connection |-> 1500]

\* Adder_title_match with the first increment subtracted instead of added
Adder_title_match_Subtracts(title) ==
    (IF Contains(title, "product manager")
        THEN 0 - (Adder_weights.title_match * 7) \div 10 ELSE 0)
  + (IF ContainsAny(title, {"senior", "staff", "principal", "lead"})
        THEN (Adder_weights.title_match * 3) \div 10 ELSE 0)

Adder_title_match(title) ==
    (IF Contains(title, "product manager")
        THEN (Adder_weights.title_match * 7) \div 10 ELSE 0)
  + (IF ContainsAny(title, {"senior", "staff", "principal", "lead"})
        THEN (Adder_weights.title_match * 3) \div 10 ELSE 0)

\* Adder_seniority_match with the mid tier tested before the senior tier
Adder_seniority_match_MidFirst(title, seniority, experience) ==
    IF Contains(seniority, "mid") \/ Contains(experience, "5")
                                  \/ Contains(experience, "7")
        THEN (Adder_weights.seniority_match * 10) \div 10
    ELSE IF Contains(seniority, "senior") \/ Contains(title, "senior")
        THEN (Adder_weights.seniority_match * 8) \div 10
    ELSE IF Contains(title, "director") \/ Contains(title, "principal")
        THEN (Adder_weights.seniority_match * 6) \div 10
    ELSE 0

Adder_seniority_match(title, seniority, experience) ==
    IF Contains(seniority, "senior") \/ Contains(title, "senior")
        THEN (Adder_weights.seniority_match * 8) \div 10
    ELSE IF Contains(seniority, "mid") \/ Contains(experience, "5")
                                       \/ Contains(experience, "7")
        THEN (Adder_weights.seniority_match * 10) \div 10
    ELSE IF Contains(title, "director") \/ Contains(title, "principal")
        THEN (Adder_weights.seniority_match * 6) \div 10
    ELSE 0

Adder_ai_keywords ==
    {"ai", "artificial intelligence", "machine learning", "llm",
     "genai", "generative", "nlp", "deep learning"}

\* Adder_technical_match asking for three keywords for the full weight
Adder_technical_match_ThreeForFull(desc) ==
    LET ai_count == CountIn(desc, Adder_ai_keywords) IN
    IF ai_count >= 3 THEN Adder_weights.technical_match
    ELSE IF ai_count >= 1 THEN (Adder_weights.technical_match * 7) \div 10
    ELSE 0

Adder_technical_match(desc) ==
    LET ai_count == CountIn(desc, Adder_ai_keywords) IN
    IF ai_count >= 2 THEN Adder_weights.technical_match
    ELSE IF ai_count >= 1 THEN (Adder_weights.technical_match * 7) \div 10
    ELSE 0

\* Adder_location_match with the New York tier tested before the remote tier
Adder_location_match_NewYorkFirst(location, workplace) ==
    IF Contains(location, "new york") \/ Contains(location, "nyc")
                                      \/ Contains(location, "ny,")
        THEN (Adder_weights.location_match * 8) \div 10
    ELSE IF Contains(location, "remote") \/ Contains(workplace, "remote")
        THEN Adder_weights.location_match
    ELSE IF Contains(workplace, "hybrid")
        THEN (Adder_weights.location_match * 6) \div 10
    ELSE 0

Adder_location_match(location, workplace) ==
    IF Contains(location, "remote") \/ Contains(workplace, "remote")
        THEN Adder_weights.location_match
    ELSE IF Contains(location, "new york") \/ Contains(location, "nyc")
                                           \/ Contains(location, "ny,")
        THEN (Adder_weights.location_match * 8) \div 10
    ELSE IF Contains(workplace, "hybrid")
        THEN (Adder_weights.location_match * 6) \div 10
    ELSE 0

Adder_personal_connection(connections) ==
    IF Truthy(Get(connections.d, "relevant_experiences", None))
        THEN Adder_weights.personal_connection
    ELSE 0

LinkedInJobAdder_calculate_match_score(job) ==
    LET title      == Get(job, "title", S(""))
        seniority  == Get(job, "seniority_level", S(""))
        experience == Get(job, "required_experience", S(""))
        desc       == Get(job, "description", S(""))
        location   == Get(job, "location", S(""))
        workplace  == Get(job, "workplace_type", S(""))
        connections == Get(job, "personal_connections", D(EmptyDict))
    IN  IF ~(IsStr(title) /\ IsStr(seniority) /\ IsStr(experience) /\ IsStr(desc)
             /\ IsStr(location) /\ IsStr(workplace) /\ connections.t = "dict")
        THEN [raised |-> TRUE]
        ELSE LET t == Lower(title.s) IN
             ScoreRecord(<< Adder_title_match(t),
                            Adder_seniority_match(t, Lower(seniority.s), Lower(experience.s)),
                            Adder_technical_match(Lower(desc.s)),
                            Adder_location_match(Lower(location.s), Lower(workplace.s)),
                            Adder_personal_connection(connections) >>)

\* add_jobs_priority with strict comparisons
add_jobs_priority_Strict(match_score) ==
    IF match_score > 7000 THEN "HIGH"
    ELSE IF match_score > 5000 THEN "MEDIUM"
    ELSE "LOW"

\* add_jobs: "Determine priority"
add_jobs_priority(match_score) ==
    IF match_score >= 7000 THEN "HIGH"
    ELSE IF match_score >= 5000 THEN "MEDIUM"
    ELSE "LOW"

(***************************************************************************)
(* PendingJobProcessor._calculate_match_score                              *)
(***************************************************************************)
Pending_weights ==
    [title_match |-> 2500, seniority_match |-> 2000, technical_match |-> 2500,
     location_match |-> 1500, personal_connection |-> 1500]

Pending_title_match(title) ==
    (IF Contains(title, "product manager")
        THEN (Pending_weights.title_match * 7) \div 10 ELSE 0)
  + (IF ContainsAny(title, {"senior", "staff", "principal", "lead"})
        THEN (Pending_weights.title_match * 3) \div 10 ELSE 0)

\* Pending_seniority_match with the senior tier reading the seniority field only
Pending_seniority_match_FieldOnly(title, seniority, experience) ==
    IF Contains(seniority, "senior")
        THEN (Pending_weights.seniority_match * 8) \div 10
    ELSE IF Contains(seniority, "mid") \/ Contains(experience, "5")
                                       \/ Contains(experience, "7")
        THEN (Pending_weights.seniority_match * 10) \div 10
    ELSE IF Contains(title, "director") \/ Contains(title, "principal")
        THEN (Pending_weights.seniority_match * 6) \div 10
    ELSE 0

Pending_seniority_match(title, seniority, experience) ==
    IF Contains(seniority, "senior") \/ Contains(title, "senior")
        THEN (Pending_weights.seniority_match * 8) \div 10
    ELSE IF Contains(seniority, "mid") \/ Contains(experience, "5")
                                       \/ Contains(experience, "7")
        THEN (Pending_weights.seniority_match * 10) \div 10
    ELSE IF Contains(title, "director") \/ Contains(title, "principal")
        THEN (Pending_weights.seniority_match * 6) \div 10
    ELSE 0

Pending_ai_keywords ==
    {"ai", "artificial intelligence", "machine learning", "llm",
     "genai", "generative", "nlp", "deep learning"}

\* Pending_technical_match with the full weight for more than two keywords
Pending_technical_match_MoreThanTwo(desc) ==
    LET ai_count == CountIn(desc, Pending_ai_keywords) IN
    IF ai_count > 2 THEN Pending_weights.technical_match
    ELSE IF ai_count >= 1 THEN (Pending_weights.technical_match * 7) \div 10
    ELSE 0

Pending_technical_match(desc) ==
    LET ai_count == CountIn(desc, Pending_ai_keywords) IN
    IF ai_count >= 2 THEN Pending_weights.technical_match
    ELSE IF ai_count >= 1 THEN (Pending_weights.technical_match * 7) \div 10
    ELSE 0

\* Pending_location_match with the three tiers as independent ifs
Pending_location_match_Independent(location, workplace) ==
    (IF Contains(location, "remote") \/ Contains(workplace, "remote")
        THEN Pending_weights.location_match ELSE 0)
  + (IF Contains(location, "new york") \/ Contains(location, "nyc")
                                       \/ Contains(location, "ny,")
        THEN (Pending_weights.location_match * 8) \div 10 ELSE 0)
  + (IF Contains(workplace, "hybrid")
        THEN (Pending_weights.location_match * 6) \div 10 ELSE 0)

Pending_location_match(location, workplace) ==
    IF Contains(location, "remote") \/ Contains(workplace, "remote")
        THEN Pending_weights.location_match
    ELSE IF Contains(location, "new york") \/ Contains(location, "nyc")
                                           \/ Contains(location, "ny,")
        THEN (Pending_weights.location_match * 8) \div 10
    ELSE IF Contains(workplace, "hybrid")
        THEN (Pending_weights.location_match * 6) \div 10
    ELSE 0

\* Pending_personal_connection granting the increment without any relevant
\* experience
Pending_personal_connection_Always(connections) ==
    Pending_weights.personal_connection

Pending_personal_connection(connections) ==
    IF Truthy(Get(connections.d, "relevant_experiences", None))
        THEN Pending_weights.personal_connection
    ELSE 0

PendingJobProcessor_calculate_match_score(job) ==
    LET title      == Get(job, "title", S(""))
        seniority  == Get(job, "seniority_level", S(""))
        experience == Get(job, "required_experience", S(""))
        desc       == Get(job, "description", S(""))
        location   == Get(job, "location", S(""))
        workplace  == Get(job, "workplace_type", S(""))
        connections == Get(job, "personal_connections", D(EmptyDict))
    IN  IF ~(IsStr(title) /\ IsStr(seniority) /\ IsStr(experience) /\ IsStr(desc)
             /\ IsStr(location) /\ IsStr(workplace) /\ connections.t = "dict")
        THEN [raised |-> TRUE]
        ELSE LET t == Lower(title.s) IN
             ScoreRecord(<< Pending_title_match(t),
                            Pending_seniority_match(t, Lower(seniority.s), Lower(experience.s)),
                            Pending_technical_match(Lower(desc.s)),
                            Pending_location_match(Lower(location.s), Lower(workplace.s)),
                            Pending_personal_connection(connections) >>)

\* process_scraped_job: "Determine priority"
process_scraped_job_priority(match_score) ==
    IF match_score >= 7000 THEN "HIGH"
    ELSE IF match_score >= 5000 THEN "MEDIUM"
    ELSE "LOW"

(***************************************************************************)
(* JobDiscoveryEngine.score_and_filter_jobs                                *)
(***************************************************************************)
\* list.sort(key=lambda x: x['match_score'], reverse=True): stable, so jobs
\* with equal keys keep their order
RECURSIVE InsertByScore(_, _)
\* InsertByScore placing a job ahead of the jobs with an equal key
InsertByScore_TiesReversed(sorted, job) ==
    IF sorted = <<>> THEN <<job>>
    ELSE IF Head(sorted)["match_score"].n > job["match_score"].n
        THEN <<Head(sorted)>> \o InsertByScore(Tail(sorted), job)
    ELSE <<job>> \o sorted

InsertByScore(sorted, job) ==
    IF sorted = <<>> THEN <<job>>
    ELSE IF Head(sorted)["match_score"].n >= job["match_score"].n
        THEN <<Head(sorted)>> \o InsertByScore(Tail(sorted), job)
    ELSE <<job>> \o sorted

RECURSIVE SortByScoreDesc(_)
SortByScoreDesc(jobs) ==
    IF jobs = <<>> THEN <<>>
    ELSE InsertByScore(SortByScoreDesc(SubSeq(jobs, 1, Len(jobs) - 1)),
                       jobs[Len(jobs)])

\* the body of the loop for one job that has a title and a company: the raw
\* (unclamped) score, or raised when a .lower() meets a none value
Discovery_score(job) ==
    LET title    == Get(job, "title", S(""))
        location == Get(job, "location", S(""))
        desc     == Get(job, "description", S(""))
        company  == Get(job, "company", None)
    IN  IF ~(IsStr(title) /\ IsStr(location) /\ IsStr(desc))
        THEN [raised |-> TRUE]
        ELSE LET title_lower == Lower(title.s)
                 loc_lower   == Lower(location.s)
                 desc_lower  == Lower(desc.s)
                 ai_terms    == {"artificial intelligence", "machine learning", "llm",
                                 "genai", "deep learning", "neural", "transformer",
                                 "gpt", "claude"}
                 ai_count    == CountIn(desc_lower, ai_terms)
             IN  [raised |-> FALSE,
                  score |->
                      (IF Contains(title_lower, "product manager") THEN 3000 ELSE 0)
                    + (IF ContainsAny(title_lower, {"senior", "staff", "principal", "lead"})
                          THEN 2000 ELSE 0)
                    + (IF ContainsAny(title_lower, {"ai", "ml", "genai", "llm"})
                          THEN 3000 ELSE 0)
                    + (IF IsStr(company) /\ company.s \in target_companies
                          THEN 2000 ELSE 0)
                    + (IF Contains(loc_lower, "remote") THEN 1000
                       ELSE IF Contains(loc_lower, "new york") THEN 800 ELSE 0)
                    + (IF ai_count >= 2 THEN 2000
                       ELSE IF ai_count >= 1 THEN 1000 ELSE 0)]

\* score_and_filter_jobs: "Determine priority", from the unclamped score
Discovery_priority(score) ==
    IF score >= 7000 THEN "HIGH"
    ELSE IF score >= 5000 THEN "MEDIUM"
    ELSE "LOW"

\* one iteration of the loop: the job is skipped, the scoring raises, or the
\* job gets its match_score and priority and is kept when HIGH or MEDIUM
Discovery_score_job(job) ==
    IF ~Truthy(Get(job, "title", None)) \/ ~Truthy(Get(job, "company", None))
    THEN [outcome |-> "skipped"]
    ELSE CHOOSE out \in
           { IF r.raised THEN [outcome |-> "raised"]
             ELSE LET priority == Discovery_priority(r.score) IN
                  [outcome |-> IF priority \in {"HIGH", "MEDIUM"} THEN "kept" ELSE "dropped",
                   job |-> Put(Put(job, "match_score", Num(Min(r.score, Scale))),
                               "priority", S(priority)),
                   raw |-> r.score] : r \in {Discovery_score(job)} } : TRUE

RECURSIVE Discovery_loop(_, _)
Discovery_loop(jobs, scored_jobs) ==
    IF jobs = <<>> THEN [raised |-> FALSE, jobs |-> scored_jobs]
    ELSE CHOOSE out \in
           { IF r.outcome = "raised" THEN [raised |-> TRUE]
             ELSE Discovery_loop(Tail(jobs),
                                 IF r.outcome = "kept" THEN Append(scored_jobs, r.job)
                                 ELSE scored_jobs) : r \in {Discovery_score_job(Head(jobs))} } : TRUE

score_and_filter_jobs(jobs) ==
    CHOOSE out \in
        { IF r.raised THEN r
          ELSE [raised |-> FALSE, jobs |-> SortByScoreDesc(r.jobs)] :
              r \in {Discovery_loop(jobs, <<>>)} } : TRUE

(***************************************************************************)
(* PersonalContextManager.find_connections                                 *)
(***************************************************************************)
\* self.experiences, in insertion order: key, relevance_keywords, companies
experiences ==
    << [key |-> "gaming_retention",
        relevance_keywords |-> {"gaming", "retention", "engagement", "monetization", "economy"},
        companies |-> {"Scopely", "Epic Games", "Roblox", "Unity"}],
       [key |-> "ai_transformation",
        relevance_keywords |-> {"ai", "llm", "genai", "automation", "agent", "ml"},
        companies |-> {"OpenAI", "Anthropic", "Meta", "Google", "Microsoft"}],
       [key |-> "platform_building",
        relevance_keywords |-> {"platform", "infrastructure", "developer", "api", "framework"},
        companies |-> {"ClickUp", "Stripe", "Twilio", "Datadog"}],
       [key |-> "edtech_learning",
        relevance_keywords |-> {"education", "learning", "edtech", "training", "curriculum"},
        companies |-> {"Committee for Children", "Nerdy", "Duolingo", "Coursera"}],
       [key |-> "b2b_saas",
        relevance_keywords |-> {"b2b", "saas", "enterprise", "sales", "gtm"},
        companies |-> {"Salesforce", "HubSpot", "ClickUp", "Monday.com"}],
       [key |-> "healthcare_regulated",
        relevance_keywords |-> {"healthcare", "hipaa", "compliance", "regulation", "security"},
        companies |-> {"Bicycle Health", "Oscar Health", "One Medical"}],
       [key |-> "martech_growth",
        relevance_keywords |-> {"marketing", "martech", "growth", "conversion", "personalization"},
        companies |-> {"NBCUniversal", "Adobe", "Mailchimp", "Klaviyo"}],
       [key |-> "data_products",
        relevance_keywords |-> {"data", "analytics", "pipeline", "quality", "ingestion"},
        companies |-> {"Databricks", "Snowflake", "Palantir", "Tableau"}] >>

\* f"{value}" of a string or of the none value
Format(v) == IF v.t = "str" THEN v.s ELSE "None"

\* Experience_match with a company bonus of 1
Experience_match_BonusOne(experience, job_text, company_lower) ==
    LET relevance_score == CountIn(job_text, experience.relevance_keywords)
        company_match   == \E comp \in experience.companies :
                               Contains(company_lower, Lower(comp))
    IN  IF relevance_score > 0 \/ company_match
        THEN << [type |-> experience.key,
                 relevance_score |-> relevance_score + (IF company_match THEN 1 ELSE 0)] >>
        ELSE <<>>

\* the entry appended for one experience, or <<>> when it is not relevant
Experience_match(experience, job_text, company_lower) ==
    LET relevance_score == CountIn(job_text, experience.relevance_keywords)
        company_match   == \E comp \in experience.companies :
                               Contains(company_lower, Lower(comp))
    IN  IF relevance_score > 0 \/ company_match
        THEN << [type |-> experience.key,
                 relevance_score |-> relevance_score + (IF company_match THEN 2 ELSE 0)] >>
        ELSE <<>>

RECURSIVE Match_experiences(_, _, _)
Match_experiences(exps, job_text, company_lower) ==
    IF exps = <<>> THEN <<>>
    ELSE Experience_match(Head(exps), job_text, company_lower)
         \o Match_experiences(Tail(exps), job_text, company_lower)

\* list.sort(key=lambda x: x['relevance_score'], reverse=True): stable
RECURSIVE InsertByRelevance(_, _)
InsertByRelevance(sorted, entry) ==
    IF sorted = <<>> THEN <<entry>>
    ELSE IF Head(sorted).relevance_score >= entry.relevance_score
        THEN <<Head(sorted)>> \o InsertByRelevance(Tail(sorted), entry)
    ELSE <<entry>> \o sorted

RECURSIVE SortByRelevanceDesc(_)
SortByRelevanceDesc(entries) ==
    IF entries = <<>> THEN <<>>
    ELSE InsertByRelevance(SortByRelevanceDesc(SubSeq(entries, 1, Len(entries) - 1)),
                           entries[Len(entries)])

\* find_connections keeping the top 4 experiences
find_connections_TopFour(company_name, job_title, job_description) ==
    IF ~IsStr(company_name) THEN [raised |-> TRUE]
    ELSE LET job_text == Lower(Format(job_title) \o " " \o Format(job_description)
                               \o " " \o Format(company_name))
             matched  == Match_experiences(experiences, job_text, Lower(company_name.s))
             sorted   == SortByRelevanceDesc(matched)
             top      == SubSeq(sorted, 1, Min(4, Len(sorted)))
             values   == (IF Contains(job_text, "remote") \/ Contains(job_text, "flexible")
                             THEN <<"family_first">> ELSE <<>>)
                      \o (IF Contains(job_text, "open source")
                             \/ Contains(job_text, "transparency")
                             THEN <<"building_in_public">> ELSE <<>>)
                      \o (IF Contains(job_text, "responsible") \/ Contains(job_text, "ethical")
                             \/ Contains(job_text, "safety")
                             THEN <<"ethical_ai">> ELSE <<>>)
         IN  [raised |-> FALSE,
              connections |-> D([k \in {"relevant_experiences", "shared_values"} |->
                                   IF k = "relevant_experiences" THEN L(top) ELSE L(values)])]

\* the connections dict (its relevant_experiences and shared_values), or
\* raised when company_name.lower() meets a none value
find_connections(company_name, job_title, job_description) ==
    IF ~IsStr(company_name) THEN [raised |-> TRUE]
    ELSE LET job_text == Lower(Format(job_title) \o " " \o Format(job_description)
                               \o " " \o Format(company_name))
             matched  == Match_experiences(experiences, job_text, Lower(company_name.s))
             sorted   == SortByRelevanceDesc(matched)
             top      == SubSeq(sorted, 1, Min(3, Len(sorted)))
             values   == (IF Contains(job_text, "remote") \/ Contains(job_text, "flexible")
                             THEN <<"family_first">> ELSE <<>>)
                      \o (IF Contains(job_text, "open source")
                             \/ Contains(job_text, "transparency")
                             THEN <<"building_in_public">> ELSE <<>>)
                      \o (IF Contains(job_text, "responsible") \/ Contains(job_text, "ethical")
                             \/ Contains(job_text, "safety")
                             THEN <<"ethical_ai">> ELSE <<>>)
         IN  [raised |-> FALSE,
              connections |-> D([k \in {"relevant_experiences", "shared_values"} |->
                                   IF k = "relevant_experiences" THEN L(top) ELSE L(values)])]

(***************************************************************************)
(* Job records handed to the scorers                                       *)
(***************************************************************************)
\* marks a key that the record does not have
Absent == [t |-> "absent"]

\* the dict holding the keys of fields whose value is not Absent
MkDict(fields) == [k \in {x \in DOMAIN fields : fields[x] # Absent} |-> fields[k]]

TitlePool ==
    {S("Senior Product Manager, AI Platform"), S("Staff Product Manager"),
     S("Director of Product"), S("Principal Engineer"), S("Product Manager")}
CompanyPool == {S("OpenAI"), S("Acme Corp")}
LocationPool == {S("Remote"), S("New York, NY"), S("Brooklyn, NY, United States")}
WorkplacePool == {S("Remote"), S("Hybrid")}
DescriptionPool ==
    {S("Requires machine learning and LLM experience, 5 years"),
     S("Ship GenAI features"), S("Build NLP pipelines")}
SeniorityPool == {S("Mid-Senior level"), S("Mid level")}
ExperiencePool == {S("5+ years"), S("7+ years")}
ConnectionsPool ==
    {D("relevant_experiences" :> L(<<[type |-> "ai_transformation", relevance_score |-> 3]>>)),
     D("relevant_experiences" :> L(<<>>))}

\* the job of the end-to-end scenario
ScenarioJob ==
    [title |-> S("Senior Product Manager, AI Platform"), company |-> S("OpenAI"),
     location |-> S("Remote"), workplace_type |-> S("Remote"),
     description |-> S("Requires machine learning and LLM experience, 5 years"),
     required_experience |-> S("5+ years")]

\* the keys a discovered job can carry among those the scorers read
\* (discover_builtin_jobs, discover_remoteok_jobs, discover_wellfound_jobs)
DiscoveredFields == {"title", "company", "location", "description"}

\* the keys of a scraped LinkedIn job that the scorers read
ScoredFields ==
    {"title", "location", "workplace_type", "description",
     "seniority_level", "required_experience"}

\* scraped records, with the connections attached, whose fields are each a
\* string or absent
ScrapedInputs ==
    { MkDict(f) : f \in
        [title : TitlePool \cup {Absent}, company : {S("OpenAI"), Absent},
         location : LocationPool \cup {Absent},
         workplace_type : WorkplacePool \cup {Absent},
         description : DescriptionPool \cup {Absent},
         seniority_level : SeniorityPool \cup {Absent},
         required_experience : ExperiencePool \cup {Absent},
         personal_connections : ConnectionsPool \cup {Absent}] }

\* discovered records whose fields are each a string or absent
DiscoveredInputs ==
    { MkDict(f) : f \in
        [title : TitlePool \cup {S(""), Absent}, company : CompanyPool \cup {Absent},
         location : LocationPool \cup {Absent},
         description : DescriptionPool \cup {Absent}] }

\* records in which one field is present with the none value
NoneInputs ==
    { Put(j, k, None) : j \in {ScenarioJob, EmptyDict}, k \in ScoredFields }
    \cup { Put(j, k, None) :
             j \in {[title |-> S("Staff Product Manager"), company |-> S("OpenAI")]},
             k \in DiscoveredFields }

ScorerInputs == ScrapedInputs \cup DiscoveredInputs \cup NoneInputs

(***************************************************************************)
(* Scorer harness: one scorer call on one job record, as the flows make it *)
(***************************************************************************)
\* add_jobs: match_score = self._calculate_match_score(scraped_data), then
\* the priority
ScoreAdder ==
    /\ sres.status = "init"
    /\ \E r \in {LinkedInJobAdder_calculate_match_score(sjob)} :
       sres' = IF r.raised
               THEN [status |-> "raised", by |-> "adder"]
               ELSE [status |-> "returned", by |-> "adder", scored |-> TRUE,
                     score |-> r.score, priority |-> add_jobs_priority(r.score),
                     raw |-> r.sum, parts |-> r]
    /\ UNCHANGED <<sjob, flowVars>>

\* process_scraped_job: the same two steps in the pending processor
ScorePending ==
    /\ sres.status = "init"
    /\ \E r \in {PendingJobProcessor_calculate_match_score(sjob)} :
       sres' = IF r.raised
               THEN [status |-> "raised", by |-> "pending"]
               ELSE [status |-> "returned", by |-> "pending", scored |-> TRUE,
                     score |-> r.score, priority |-> process_scraped_job_priority(r.score),
                     raw |-> r.sum, parts |-> r]
    /\ UNCHANGED <<sjob, flowVars>>

\* score_and_filter_jobs on the list holding the one job
ScoreDiscovery ==
    /\ sres.status = "init"
    /\ DOMAIN sjob \subseteq DiscoveredFields
    /\ \E out \in {score_and_filter_jobs(<<sjob>>)}, r \in {Discovery_score_job(sjob)} :
           sres' = IF out.raised
                   THEN [status |-> "raised", by |-> "discovery"]
                   ELSE IF r.outcome = "skipped"
                   THEN [status |-> "returned", by |-> "discovery", scored |-> FALSE,
                         jobs |-> out.jobs]
                   ELSE [status |-> "returned", by |-> "discovery", scored |-> TRUE,
                         score |-> r.job["match_score"].n,
                         priority |-> r.job["priority"].s,
                         raw |-> r.raw, jobs |-> out.jobs]
    /\ UNCHANGED <<sjob, flowVars>>

FlowIdle ==
    /\ flow = "none" /\ pc = "idle" /\ queue = <<>> /\ cur = EmptyDict
    /\ events = <<>> /\ tracker = <<>> /\ handled = 0

InitScorer ==
    /\ sjob \in ScorerInputs
    /\ sres = [status |-> "init"]
    /\ FlowIdle

NextScorer == ScoreAdder \/ ScorePending \/ ScoreDiscovery

SpecScorer == InitScorer /\ [][NextScorer]_vars

(***************************************************************************)
(* Orchestrating flows: inputs                                             *)
(***************************************************************************)
\* the largest number of URLs or discovered jobs handled in one run
MaxJobs == 2

\* what LinkedInScraper.scrape_job can return for a URL, before the url key:
\* scraped records, a failed scrape without a title, a failed scrape whose
\* fallback extraction found a title, and a record without a company
ScrapedPool ==
    { [title |-> S("Senior Product Manager, AI Platform"), company |-> S("OpenAI"),
       location |-> S("Remote"), workplace_type |-> S("Remote"),
       description |-> S("Requires machine learning and LLM experience, 5 years"),
       required_experience |-> S("5+ years"), source |-> S("LinkedIn")],
      [title |-> S("Product Manager"), company |-> S("Stripe"),
       location |-> S("New York, NY"), workplace_type |-> S("Hybrid"),
       description |-> S("Build NLP pipelines"), source |-> S("LinkedIn")],
      [title |-> S("Director of Product"), company |-> S("Acme Corp"),
       location |-> S("Austin, TX"), source |-> S("LinkedIn")],
      [error |-> S("Timeout 30000ms exceeded"), source |-> S("LinkedIn")],
      [error |-> S("Timeout 30000ms exceeded"), title |-> S("Staff Product Manager"),
       company |-> S("Anthropic"), workplace_type |-> S("Remote"),
       description |-> S("Ship GenAI features"), source |-> S("LinkedIn")],
      [title |-> S("Principal Engineer"), description |-> S("Own the checkout roadmap"),
       source |-> S("LinkedIn")] }

\* what the discover_* methods can append to all_jobs: job.get(...) of a key
\* the board's answer lacks is the none value
DiscoveredPool ==
    { [title |-> S("Senior Product Manager - AI Platform"), company |-> S("OpenAI"),
       location |-> S("San Francisco, CA (Remote)"),
       description |-> S("Join OpenAI to build the future of AI products."),
       source |-> S("Wellfound")],
      [title |-> S("Staff Product Manager"), company |-> S("Stripe"),
       location |-> None, description |-> S(""), source |-> S("BuiltIn")],
      [title |-> S("Staff Product Manager"), company |-> S("Stripe"),
       location |-> S("Chicago, IL"), description |-> S(""), source |-> S("BuiltIn")],
      [title |-> S("Product Manager"), company |-> S("Stripe"),
       location |-> S("New York, NY"), description |-> S(""), source |-> S("BuiltIn")],
      [title |-> S("Data Analyst"), company |-> S("Acme Corp"),
       location |-> S("Remote"), description |-> S("Build NLP pipelines"),
       source |-> S("RemoteOK")],
      [title |-> None, company |-> S("Acme Corp"), location |-> S("Remote"),
       description |-> S(""), source |-> S("RemoteOK")] }

UrlOf(i) == "https://jobs.example/" \o ToString(i)

\* the records of a pool, one per URL in order, each carrying its URL
WithUrls(records) ==
    [i \in 1..Len(records) |-> Put(records[i], "url", S(UrlOf(i)))]

\* what drive_agent.process reports for an exported application
DriveResult ==
    D("documents" :> D([resume_url |-> S("https://docs.example/resume"),
                        cover_letter_url |-> S("https://docs.example/cover-letter")]))

\* what research_company returns for a company
ResearchResult(company_name) == D("company" :> company_name)

Event(call, job) == [call |-> call, url |-> Get(job, "url", S("")).s]

\* f"{match_score*100:.1f}%"
FormatPct(n) == ToString(n \div 100) \o "." \o ToString((n % 100) \div 10) \o "%"

\* 'error' in scraped_data and not scraped_data.get('title')
FailedScrape(job) == "error" \in DOMAIN job /\ ~Truthy(Get(job, "title", None))

(***************************************************************************)
(* LinkedInJobAdder.add_jobs                                               *)
(***************************************************************************)
\* scraped_jobs = await self.scraper.scrape_multiple_jobs(urls)
Adder_Scrape ==
    /\ flow = "adder" /\ pc = "start"
    /\ \E n \in 1..MaxJobs : \E records \in [1..n -> ScrapedPool] :
           queue' = WithUrls(records)
    /\ pc' = "loop"
    /\ UNCHANGED <<flow, cur, events, tracker, handled, scorerVars>>

\* the head of the loop: the next scraped job, skipped when its scrape failed
Adder_Next ==
    /\ flow = "adder" /\ pc = "loop"
    /\ IF queue = <<>>
       THEN pc' = "done" /\ UNCHANGED <<queue, cur, events, handled>>
       ELSE /\ cur' = Head(queue)
            /\ queue' = Tail(queue)
            /\ handled' = handled + 1
            /\ IF FailedScrape(Head(queue))
               THEN pc' = "loop" /\ events' = Append(events, Event("skip", Head(queue)))
               ELSE pc' = "research" /\ UNCHANGED events
    /\ UNCHANGED <<flow, tracker, scorerVars>>

\* "Research company if we have a company name": the research returns or
\* raises, and a raise leaves an empty company_research
Adder_Research ==
    /\ flow = "adder" /\ pc = "research"
    /\ IF Truthy(Get(cur, "company", None))
       THEN \E ok \in BOOLEAN :
                cur' = Put(cur, "company_research",
                           IF ok THEN ResearchResult(cur["company"]) ELSE D(EmptyDict))
       ELSE UNCHANGED cur
    /\ pc' = "connections"
    /\ UNCHANGED <<flow, queue, events, tracker, handled, scorerVars>>

\* Adder_FindConnections without the assignment to
\* scraped_data['personal_connections']
Adder_FindConnections_NotStored ==
    /\ flow = "adder" /\ pc = "connections"
    /\ \E r \in {find_connections(Get(cur, "company", S("")), Get(cur, "title", S("")),
                                  Get(cur, "description", S("")))} :
           IF r.raised
           THEN pc' = "crashed" /\ UNCHANGED <<cur, events>>
           ELSE /\ cur' = cur
                /\ events' = Append(events, Event("find_connections", cur))
                /\ pc' = "score"
    /\ UNCHANGED <<flow, queue, tracker, handled, scorerVars>>

\* "Find personal connections"
Adder_FindConnections ==
    /\ flow = "adder" /\ pc = "connections"
    /\ \E r \in {find_connections(Get(cur, "company", S("")), Get(cur, "title", S("")),
                                  Get(cur, "description", S("")))} :
           IF r.raised
           THEN pc' = "crashed" /\ UNCHANGED <<cur, events>>
           ELSE /\ cur' = Put(cur, "personal_connections", r.connections)
                /\ events' = Append(events, Event("find_connections", cur))
                /\ pc' = "score"
    /\ UNCHANGED <<flow, queue, tracker, handled, scorerVars>>

\* "Calculate match score" and "Determine priority"
Adder_Score ==
    /\ flow = "adder" /\ pc = "score"
    /\ \E r \in {LinkedInJobAdder_calculate_match_score(cur)} :
           IF r.raised
           THEN pc' = "crashed" /\ UNCHANGED <<cur, events>>
           ELSE /\ cur' = Put(Put(cur, "match_score", Num(r.score)),
                              "priority", S(add_jobs_priority(r.score)))
                /\ events' = Append(events, Event("score", cur))
                /\ pc' = "generate"
    /\ UNCHANGED <<flow, queue, tracker, handled, scorerVars>>

\* Adder_Generate leaving the job without a row when the rendering or the
\* export raises, as the pending processor does
Adder_Generate_DropOnRaise ==
    /\ flow = "adder" /\ pc = "generate"
    /\ IF cur["priority"].s \in {"HIGH", "MEDIUM"}
       THEN \E outcome \in {"render_raised", "exported", "export_failed", "export_raised"} :
                /\ events' = events \o <<Event("render", cur)>>
                                    \o (IF outcome = "render_raised" THEN <<>>
                                        ELSE <<Event("export", cur)>>)
                /\ pc' = IF outcome = "exported" THEN "tracker_docs"
                         ELSE IF outcome = "export_failed" THEN "tracker_only"
                         ELSE "loop"
       ELSE pc' = "tracker_only" /\ UNCHANGED events
    /\ UNCHANGED <<flow, queue, cur, tracker, handled, scorerVars>>

\* "Generate application if high/medium priority", with
\* _generate_and_add_application up to the choice of the tracker row: the
\* rendering raises, or the export succeeds, reports failure or raises
Adder_Generate ==
    /\ flow = "adder" /\ pc = "generate"
    /\ IF cur["priority"].s \in {"HIGH", "MEDIUM"}
       THEN \E outcome \in {"render_raised", "exported", "export_failed", "export_raised"} :
                /\ events' = events \o <<Event("render", cur)>>
                                    \o (IF outcome = "render_raised" THEN <<>>
                                        ELSE <<Event("export", cur)>>)
                /\ pc' = IF outcome = "exported" THEN "tracker_docs" ELSE "tracker_only"
       ELSE pc' = "tracker_only" /\ UNCHANGED events
    /\ UNCHANGED <<flow, queue, cur, tracker, handled, scorerVars>>

\* the row of _add_to_tracker
Adder_row(job_data, drive_result) ==
    << Get(job_data, "title", S("")),
       Get(job_data, "company", S("")),
       S("Not Started"),
       Get(job_data, "priority", S("LOW")),
       Get(job_data, "posted_time", S("")),
       S(FormatPct(Get(job_data, "match_score", Num(0)).n)),
       S(""),
       S(""),
       Get(Get(drive_result.d, "documents", D(EmptyDict)).d, "resume_url", S("")),
       Get(Get(drive_result.d, "documents", D(EmptyDict)).d, "cover_letter_url", S("")),
       S("LinkedIn | " \o Format(Get(job_data, "workplace_type", S("")))
                       \o " | " \o Format(Get(job_data, "applicants", S("Unknown applicants")))),
       S(IF Get(job_data, "priority", None) = S("HIGH")
            THEN "Apply this week" ELSE "Review and apply"),
       Get(job_data, "url", S("")) >>

\* Adder_row_only without the Deadline cell: every later cell moves one
\* column to the left
Adder_row_only_NoDeadline(job_data) ==
    << Get(job_data, "title", S("")),
       Get(job_data, "company", S("")),
       S("Not Started"),
       Get(job_data, "priority", S("LOW")),
       Get(job_data, "posted_time", S("")),
       S(FormatPct(Get(job_data, "match_score", Num(0)).n)),
       S(""),
       S(""),
       S(""),
       S("LinkedIn | " \o Format(Get(job_data, "workplace_type", S("")))
                       \o " | " \o Format(Get(job_data, "applicants", S("Unknown applicants")))),
       S(IF Get(job_data, "priority", None) \in {S("HIGH"), S("MEDIUM")}
            THEN "Generate application materials" ELSE "Review when time permits"),
       Get(job_data, "url", S("")) >>

\* the row of _add_to_tracker_only
Adder_row_only(job_data) ==
    << Get(job_data, "title", S("")),
       Get(job_data, "company", S("")),
       S("Not Started"),
       Get(job_data, "priority", S("LOW")),
       Get(job_data, "posted_time", S("")),
       S(FormatPct(Get(job_data, "match_score", Num(0)).n)),
       S(""),
       S(""),
       S(""),
       S(""),
       S("LinkedIn | " \o Format(Get(job_data, "workplace_type", S("")))
                       \o " | " \o Format(Get(job_data, "applicants", S("Unknown applicants")))),
       S(IF Get(job_data, "priority", None) \in {S("HIGH"), S("MEDIUM")}
            THEN "Generate application materials" ELSE "Review when time permits"),
       Get(job_data, "url", S("")) >>

\* _add_to_tracker: the append succeeds, or raises and is only reported
Adder_AddToTracker ==
    /\ flow = "adder" /\ pc = "tracker_docs"
    /\ \E ok \in BOOLEAN :
           tracker' = IF ok THEN Append(tracker, Adder_row(cur, DriveResult)) ELSE tracker
    /\ events' = Append(events, Event("append_with_links", cur))
    /\ pc' = "loop"
    /\ UNCHANGED <<flow, queue, cur, handled, scorerVars>>

\* _add_to_tracker_only
Adder_AddToTrackerOnly ==
    /\ flow = "adder" /\ pc = "tracker_only"
    /\ \E ok \in BOOLEAN :
           tracker' = IF ok THEN Append(tracker, Adder_row_only(cur)) ELSE tracker
    /\ events' = Append(events, Event("append_without_links", cur))
    /\ pc' = "loop"
    /\ UNCHANGED <<flow, queue, cur, handled, scorerVars>>

(***************************************************************************)
(* PendingJobProcessor.process_all_pending                                 *)
(***************************************************************************)
\* scraped_jobs = await self.scraper.scrape_multiple_jobs(urls)
Pending_Scrape ==
    /\ flow = "pending" /\ pc = "start"
    /\ \E n \in 1..MaxJobs : \E records \in [1..n -> ScrapedPool] :
           queue' = WithUrls(records)
    /\ pc' = "loop"
    /\ UNCHANGED <<flow, cur, events, tracker, handled, scorerVars>>

\* the head of the loop and the head of process_scraped_job: a failed scrape
\* is returned as it is, has no priority, and the loop goes on
Pending_Next ==
    /\ flow = "pending" /\ pc = "loop"
    /\ IF queue = <<>>
       THEN pc' = "done" /\ UNCHANGED <<queue, cur, events, handled>>
       ELSE /\ cur' = Head(queue)
            /\ queue' = Tail(queue)
            /\ handled' = handled + 1
            /\ IF FailedScrape(Head(queue))
               THEN pc' = "loop" /\ events' = Append(events, Event("skip", Head(queue)))
               ELSE pc' = "research" /\ UNCHANGED events
    /\ UNCHANGED <<flow, tracker, scorerVars>>

\* process_scraped_job: "Research company if we have a company name"
Pending_Research ==
    /\ flow = "pending" /\ pc = "research"
    /\ IF Truthy(Get(cur, "company", None))
       THEN \E ok \in BOOLEAN :
                cur' = Put(cur, "company_research",
                           IF ok THEN ResearchResult(cur["company"]) ELSE D(EmptyDict))
       ELSE UNCHANGED cur
    /\ pc' = "connections"
    /\ UNCHANGED <<flow, queue, events, tracker, handled, scorerVars>>

\* process_scraped_job: "Find personal connections"
Pending_FindConnections ==
    /\ flow = "pending" /\ pc = "connections"
    /\ \E r \in {find_connections(Get(cur, "company", S("")), Get(cur, "title", S("")),
                                  Get(cur, "description", S("")))} :
           IF r.raised
           THEN pc' = "crashed" /\ UNCHANGED <<cur, events>>
           ELSE /\ cur' = Put(cur, "personal_connections", r.connections)
                /\ events' = Append(events, Event("find_connections", cur))
                /\ pc' = "score"
    /\ UNCHANGED <<flow, queue, tracker, handled, scorerVars>>

\* process_scraped_job: "Calculate match score" and "Determine priority"
Pending_Score ==
    /\ flow = "pending" /\ pc = "score"
    /\ \E r \in {PendingJobProcessor_calculate_match_score(cur)} :
           IF r.raised
           THEN pc' = "crashed" /\ UNCHANGED <<cur, events>>
           ELSE /\ cur' = Put(Put(cur, "match_score", Num(r.score)),
                              "priority", S(process_scraped_job_priority(r.score)))
                /\ events' = Append(events, Event("score", cur))
                /\ pc' = "generate"
    /\ UNCHANGED <<flow, queue, tracker, handled, scorerVars>>

\* "Generate application if it's a good match", with generate_application
\* up to the tracker row: nothing is appended unless the export succeeds
Pending_Generate ==
    /\ flow = "pending" /\ pc = "generate"
    /\ IF Get(cur, "priority", None) \in {S("HIGH"), S("MEDIUM")}
          /\ Truthy(Get(cur, "title", None))
       THEN \E outcome \in {"render_raised", "exported", "export_failed", "export_raised"} :
                /\ events' = events \o <<Event("render", cur)>>
                                    \o (IF outcome = "render_raised" THEN <<>>
                                        ELSE <<Event("export", cur)>>)
                /\ pc' = IF outcome = "exported" THEN "tracker_docs" ELSE "loop"
       ELSE pc' = "loop" /\ UNCHANGED events
    /\ UNCHANGED <<flow, queue, cur, tracker, handled, scorerVars>>

\* the row of PendingJobProcessor._add_to_tracker
Pending_row(job_data, drive_result) ==
    << Get(job_data, "title", S("")),
       Get(job_data, "company", S("")),
       S("Not Started"),
       Get(job_data, "priority", S("LOW")),
       Get(job_data, "posted_time", S("")),
       S(FormatPct(Get(job_data, "match_score", Num(0)).n)),
       S(""),
       S(""),
       Get(Get(drive_result.d, "documents", D(EmptyDict)).d, "resume_url", S("")),
       Get(Get(drive_result.d, "documents", D(EmptyDict)).d, "cover_letter_url", S("")),
       S("LinkedIn | " \o Format(Get(job_data, "workplace_type", S("")))
                       \o " | " \o Format(Get(job_data, "applicants", S("Unknown applicants")))),
       S(IF Get(job_data, "priority", None) = S("HIGH")
            THEN "Review and apply" ELSE "Review when time permits"),
       Get(job_data, "url", S("")) >>

\* PendingJobProcessor._add_to_tracker
Pending_AddToTracker ==
    /\ flow = "pending" /\ pc = "tracker_docs"
    /\ \E ok \in BOOLEAN :
           tracker' = IF ok THEN Append(tracker, Pending_row(cur, DriveResult)) ELSE tracker
    /\ events' = Append(events, Event("append_with_links", cur))
    /\ pc' = "loop"
    /\ UNCHANGED <<flow, queue, cur, handled, scorerVars>>

(***************************************************************************)
(* JobDiscoveryEngine.run_discovery                                        *)
(***************************************************************************)
\* all_jobs, gathered from the three boards
Discovery_Discover ==
    /\ flow = "discovery" /\ pc = "start"
    /\ \E n \in 1..MaxJobs : \E records \in [1..n -> DiscoveredPool] :
           queue' = WithUrls(records)
    /\ pc' = "filter"
    /\ UNCHANGED <<flow, cur, events, tracker, handled, scorerVars>>

\* the jobs of all_jobs that score_and_filter_jobs gives a match_score
RECURSIVE ScoreEvents(_)
ScoreEvents(jobs) ==
    IF jobs = <<>> THEN <<>>
    ELSE (IF Discovery_score_job(Head(jobs)).outcome \in {"kept", "dropped"}
             THEN <<Event("score", Head(jobs))>> ELSE <<>>)
         \o ScoreEvents(Tail(jobs))

\* filtered_jobs = await self.score_and_filter_jobs(all_jobs), of which the
\* loop takes filtered_jobs[:10]
Discovery_ScoreAndFilter ==
    /\ flow = "discovery" /\ pc = "filter"
    /\ \E r \in {score_and_filter_jobs(queue)} :
           IF r.raised
           THEN pc' = "crashed" /\ UNCHANGED <<queue, events>>
           ELSE /\ queue' = SubSeq(r.jobs, 1, Min(10, Len(r.jobs)))
                /\ events' = events \o ScoreEvents(queue)
                /\ pc' = "loop"
    /\ UNCHANGED <<flow, cur, tracker, handled, scorerVars>>

\* the head of the loop over the top opportunities
Discovery_Next ==
    /\ flow = "discovery" /\ pc = "loop"
    /\ IF queue = <<>>
       THEN pc' = "done" /\ UNCHANGED <<queue, cur, handled>>
       ELSE /\ cur' = Head(queue)
            /\ queue' = Tail(queue)
            /\ handled' = handled + 1
            /\ pc' = "research"
    /\ UNCHANGED <<flow, events, tracker, scorerVars>>

\* process_discovered_job: "Research company"; a raise is only reported
Discovery_Research ==
    /\ flow = "discovery" /\ pc = "research"
    /\ IF Truthy(Get(cur, "company", None))
       THEN \E ok \in BOOLEAN :
                cur' = IF ok THEN Put(cur, "company_research", ResearchResult(cur["company"]))
                       ELSE cur
       ELSE UNCHANGED cur
    /\ pc' = "connections"
    /\ UNCHANGED <<flow, queue, events, tracker, handled, scorerVars>>

\* process_discovered_job: "Find personal connections"
Discovery_FindConnections ==
    /\ flow = "discovery" /\ pc = "connections"
    /\ \E r \in {find_connections(Get(cur, "company", S("")), Get(cur, "title", S("")),
                                  Get(cur, "description", S("")))} :
           IF r.raised
           THEN pc' = "crashed" /\ UNCHANGED <<cur, events>>
           ELSE /\ cur' = Put(cur, "personal_connections", r.connections)
                /\ events' = Append(events, Event("find_connections", cur))
                /\ pc' = "generate"
    /\ UNCHANGED <<flow, queue, tracker, handled, scorerVars>>

\* Discovery_Generate generating for MEDIUM jobs as the LinkedIn flows do
Discovery_Generate_MediumToo ==
    /\ flow = "discovery" /\ pc = "generate"
    /\ IF cur["priority"] \in {S("HIGH"), S("MEDIUM")}
       THEN \E outcome \in {"render_raised", "exported", "export_failed", "export_raised"} :
                /\ events' = events \o <<Event("render", cur)>>
                                    \o (IF outcome = "render_raised" THEN <<>>
                                        ELSE <<Event("export", cur)>>)
                /\ pc' = IF outcome = "exported" THEN "tracker_docs" ELSE "loop"
       ELSE pc' = "loop" /\ UNCHANGED events
    /\ UNCHANGED <<flow, queue, cur, tracker, handled, scorerVars>>

\* "Generate application if high priority", with
\* generate_and_save_application up to the tracker row
Discovery_Generate ==
    /\ flow = "discovery" /\ pc = "generate"
    /\ IF cur["priority"] = S("HIGH")
       THEN \E outcome \in {"render_raised", "exported", "export_failed", "export_raised"} :
                /\ events' = events \o <<Event("render", cur)>>
                                    \o (IF outcome = "render_raised" THEN <<>>
                                        ELSE <<Event("export", cur)>>)
                /\ pc' = IF outcome = "exported" THEN "tracker_docs" ELSE "loop"
       ELSE pc' = "loop" /\ UNCHANGED events
    /\ UNCHANGED <<flow, queue, cur, tracker, handled, scorerVars>>

\* the row of JobDiscoveryEngine._add_to_tracker
Discovery_row(job, drive_result) ==
    << job["title"],
       job["company"],
       S("Not Started"),
       job["priority"],
       S(""),
       S(FormatPct(job["match_score"].n)),
       S(""),
       S(""),
       Get(Get(drive_result.d, "documents", D(EmptyDict)).d, "resume_url", S("")),
       Get(Get(drive_result.d, "documents", D(EmptyDict)).d, "cover_letter_url", S("")),
       S(Format(job["source"]) \o " | " \o Format(Get(job, "location", S("")))),
       S(IF job["priority"] = S("HIGH") THEN "Apply this week" ELSE "Review and apply"),
       Get(job, "url", S("")) >>

\* JobDiscoveryEngine._add_to_tracker
Discovery_AddToTracker ==
    /\ flow = "discovery" /\ pc = "tracker_docs"
    /\ \E ok \in BOOLEAN :
           tracker' = IF ok THEN Append(tracker, Discovery_row(cur, DriveResult)) ELSE tracker
    /\ events' = Append(events, Event("append_with_links", cur))
    /\ pc' = "loop"
    /\ UNCHANGED <<flow, queue, cur, handled, scorerVars>>

(***************************************************************************)
(* add_manual_jobs                                                        *)
(***************************************************************************)
\* the two placeholder jobs the script adds
jobs_to_add ==
    << [url |-> S("https://www.linkedin.com/jobs/view/4277852534/"),
        job_id |-> S("4277852534"),
        title |-> S("LinkedIn Job 4277852534"),
        company |-> S("TBD"),
        priority |-> S("MEDIUM"),
        notes |-> S("LinkedIn | Manual entry - scraping blocked")],
       [url |-> S("https://www.linkedin.com/jobs/view/4283025676/"),
        job_id |-> S("4283025676"),
        title |-> S("LinkedIn Job 4283025676"),
        company |-> S("TBD"),
        priority |-> S("MEDIUM"),
        notes |-> S("LinkedIn | Manual entry - scraping blocked")] >>

\* the row of add_manual_jobs
Manual_row(job) ==
    << job["title"],
       job["company"],
       S("Not Started"),
       job["priority"],
       S(""),
       S("TBD"),
       S(""),
       S(""),
       S(""),
       S(""),
       job["notes"],
       S("Review job details and generate application"),
       job["url"] >>

\* jobs_to_add = [...]
Manual_Load ==
    /\ flow = "manual" /\ pc = "start"
    /\ queue' = jobs_to_add
    /\ pc' = "loop"
    /\ UNCHANGED <<flow, cur, events, tracker, handled, scorerVars>>

\* for job in jobs_to_add
Manual_Next ==
    /\ flow = "manual" /\ pc = "loop"
    /\ IF queue = <<>>
       THEN pc' = "done" /\ UNCHANGED <<queue, cur, handled>>
       ELSE /\ cur' = Head(queue)
            /\ queue' = Tail(queue)
            /\ handled' = handled + 1
            /\ pc' = "tracker_only"
    /\ UNCHANGED <<flow, events, tracker, scorerVars>>

\* the append of the row: it succeeds, or raises and is only reported
Manual_Append ==
    /\ flow = "manual" /\ pc = "tracker_only"
    /\ \E ok \in BOOLEAN :
           tracker' = IF ok THEN Append(tracker, Manual_row(cur)) ELSE tracker
    /\ events' = Append(events, Event("append_without_links", cur))
    /\ pc' = "loop"
    /\ UNCHANGED <<flow, queue, cur, handled, scorerVars>>

(***************************************************************************)
(* The flows                                                               *)
(***************************************************************************)
Flows == {"adder", "pending", "discovery", "manual"}

Init ==
    /\ flow \in Flows
    /\ pc = "start"
    /\ queue = <<>>
    /\ cur = EmptyDict
    /\ events = <<>>
    /\ tracker = <<>>
    /\ handled = 0
    /\ sjob = EmptyDict
    /\ sres = [status |-> "idle"]

Next ==
    \/ Adder_Scrape \/ Adder_Next \/ Adder_Research \/ Adder_FindConnections
    \/ Adder_Score \/ Adder_Generate \/ Adder_AddToTracker \/ Adder_AddToTrackerOnly
    \/ Pending_Scrape \/ Pending_Next \/ Pending_Research \/ Pending_FindConnections
    \/ Pending_Score \/ Pending_Generate \/ Pending_AddToTracker
    \/ Discovery_Discover \/ Discovery_ScoreAndFilter \/ Discovery_Next
    \/ Discovery_Research \/ Discovery_FindConnections \/ Discovery_Generate
    \/ Discovery_AddToTracker
    \/ Manual_Load \/ Manual_Next \/ Manual_Append

Spec == Init /\ [][Next]_vars

(***************************************************************************)
(* Priority harness: the three priority assignments on sampled scores      *)
(***************************************************************************)
\* the largest sampled score: the sum of every increment of the discovery
\* scorer, 1.3
MaxRawScore == 13000

\* add_jobs, "Determine priority", on a value _calculate_match_score can return
Bucket_Adder ==
    /\ sres.status = "sample" /\ sres.raw <= Scale
    /\ sres' = [status |-> "bucketed", by |-> "adder", score |-> sres.raw,
                priority |-> add_jobs_priority(sres.raw)]
    /\ UNCHANGED <<sjob, flowVars>>

\* process_scraped_job, "Determine priority"
Bucket_Pending ==
    /\ sres.status = "sample" /\ sres.raw <= Scale
    /\ sres' = [status |-> "bucketed", by |-> "pending", score |-> sres.raw,
                priority |-> process_scraped_job_priority(sres.raw)]
    /\ UNCHANGED <<sjob, flowVars>>

\* score_and_filter_jobs: job['match_score'] = min(score, 1.0), then the
\* priority from score
Bucket_Discovery ==
    /\ sres.status = "sample"
    /\ sres' = [status |-> "bucketed", by |-> "discovery", score |-> Min(sres.raw, Scale),
                priority |-> Discovery_priority(sres.raw)]
    /\ UNCHANGED <<sjob, flowVars>>

InitPriority ==
    /\ sjob = EmptyDict
    /\ sres \in [status : {"sample"}, raw : 0..MaxRawScore]
    /\ FlowIdle

NextPriority == Bucket_Adder \/ Bucket_Pending \/ Bucket_Discovery

SpecPriority == InitPriority /\ [][NextPriority]_vars

(***************************************************************************)
(* ApplicationKitParser.select_achievements                                *)
(*                                                                         *)
(* A kit is a function from the keys present to plain values: a string, a  *)
(* sequence for a list, a function for a dict.  In the string literals of  *)
(* the kit and of the template engine the non-breaking hyphen (U+2011) of  *)
(* the source is written "~", the en dash (U+2013) "--", the em dash       *)
(* (U+2014) "---" and the bullet (U+2022) "*".                             *)
(***************************************************************************)
\* keyword_mapping, in the order of the dict
keyword_mapping ==
    << [keyword |-> "automation",
        indicators |-> <<"multi~agent", "reduced PM busywork", "prototype cycle">>],
       [keyword |-> "revenue",
        indicators |-> <<"$6M ARR", "$400K", "churn", "retention">>],
       [keyword |-> "data",
        indicators |-> <<"data~health", "anomaly detection", "entity resolution">>],
       [keyword |-> "platform",
        indicators |-> <<"LLM experimentation", "notebook", "guardrails">>],
       [keyword |-> "scale",
        indicators |-> <<"20,000+ users", "CAC", "LTV">>],
       [keyword |-> "governance",
        indicators |-> <<"responsible~AI", "audit trails", "Security/Legal">>] >>

\* for indicator in indicators: if indicator.lower() in achievement.lower()
RECURSIVE Indicator_hits(_, _)
Indicator_hits(indicators, achievement_lower) ==
    IF indicators = <<>> THEN 0
    ELSE (IF Contains(achievement_lower, Lower(Head(indicators))) THEN 1 ELSE 0)
         + Indicator_hits(Tail(indicators), achievement_lower)

\* for keyword, indicators in keyword_mapping.items(): if keyword in
\* description_lower: ...
RECURSIVE Achievement_score(_, _, _)
Achievement_score(mapping, description_lower, achievement_lower) ==
    IF mapping = <<>> THEN 0
    ELSE (IF Contains(description_lower, Head(mapping).keyword)
            THEN Indicator_hits(Head(mapping).indicators, achievement_lower) ELSE 0)
         + Achievement_score(Tail(mapping), description_lower, achievement_lower)

\* selected.append((score, achievement)) for each achievement of the bank
RECURSIVE Score_achievements(_, _)
Score_achievements(achievements, description_lower) ==
    IF achievements = <<>> THEN <<>>
    ELSE << [score |-> Achievement_score(keyword_mapping, description_lower,
                                         Lower(Head(achievements))),
             achievement |-> Head(achievements)] >>
         \o Score_achievements(Tail(achievements), description_lower)

\* selected.sort(key=lambda x: x[0], reverse=True): a stable sort, so pairs
\* with equal scores keep their order
RECURSIVE InsertSelected(_, _)

\* InsertSelected placing a pair ahead of the pairs with an equal score
InsertSelected_TiesReversed(sorted, pair) ==
    IF sorted = <<>> THEN <<pair>>
    ELSE IF Head(sorted).score > pair.score
        THEN <<Head(sorted)>> \o InsertSelected(Tail(sorted), pair)
    ELSE <<pair>> \o sorted

InsertSelected(sorted, pair) ==
    IF sorted = <<>> THEN <<pair>>
    ELSE IF Head(sorted).score >= pair.score
        THEN <<Head(sorted)>> \o InsertSelected(Tail(sorted), pair)
    ELSE <<pair>> \o sorted

RECURSIVE SortSelected(_)
SortSelected(selected) ==
    IF selected = <<>> THEN <<>>
    ELSE InsertSelected(SortSelected(SubSeq(selected, 1, Len(selected) - 1)),
                        selected[Len(selected)])

\* SliceTo keeping one item more, seq[:count + 1]
SliceTo_OneMore(seq, count) ==
    IF count + 1 >= 0 THEN SubSeq(seq, 1, Min(count + 1, Len(seq)))
    ELSE SubSeq(seq, 1, IF Len(seq) + count + 1 > 0 THEN Len(seq) + count + 1 ELSE 0)

\* seq[:count]
SliceTo(seq, count) ==
    IF count >= 0 THEN SubSeq(seq, 1, Min(count, Len(seq)))
    ELSE SubSeq(seq, 1, IF Len(seq) + count > 0 THEN Len(seq) + count ELSE 0)

\* the list select_achievements returns for the senior kit
select_achievements(senior_kit, job_description, count) ==
    LET achievements == IF "achievements_bank" \in DOMAIN senior_kit
                        THEN senior_kit["achievements_bank"] ELSE <<>>
    IN  IF achievements = <<>> THEN <<>>
        ELSE CHOOSE out \in
                 { [i \in 1..Len(top) |-> top[i].achievement] :
                     top \in { SliceTo(SortSelected(
                                   Score_achievements(achievements,
                                                      Lower(job_description))), count) } } :
                 TRUE

(***************************************************************************)
(* Selection harness: select_achievements called twice on one input        *)
(***************************************************************************)
\* the largest bank and the largest count handed to select_achievements
MaxBank == 3
MaxCount == 4

\* achievements as _extract_achievements_bank yields them
AchievementPool ==
    {"Drove $6M ARR and cut churn", "Built multi~agent flows; reduced PM busywork",
     "Shipped anomaly detection", "Launched LLM experimentation notebook",
     "Mentored five product managers"}

BankPool == UNION { [1..n -> AchievementPool] : n \in 0..MaxBank }

SelectDescriptionPool ==
    {"", "Own the data platform roadmap", "Grow REVENUE through Automation",
     "Lead platform governance"}

\* the senior kit of a missing kit file, and kits holding a bank
SelectKitPool == {EmptyDict} \cup { [achievements_bank |-> bank] : bank \in BankPool }

SelectInputs ==
    [description : SelectDescriptionPool, kit : SelectKitPool, count : 0..MaxCount]

SelectAchievements ==
    /\ sres.status = "init"
    /\ sres' = [status |-> "selected",
                out |-> select_achievements(sjob.kit, sjob.description, sjob.count)]
    /\ UNCHANGED <<sjob, flowVars>>

SelectAchievementsAgain ==
    /\ sres.status = "selected"
    /\ sres' = [status |-> "reselected", out |-> sres.out,
                again |-> select_achievements(sjob.kit, sjob.description, sjob.count)]
    /\ UNCHANGED <<sjob, flowVars>>

InitSelect ==
    /\ sjob \in SelectInputs
    /\ sres = [status |-> "init"]
    /\ FlowIdle

NextSelect == SelectAchievements \/ SelectAchievementsAgain

SpecSelect == InitSelect /\ [][NextSelect]_vars

(***************************************************************************)
(* Connections harness: one find_connections call on one job               *)
(***************************************************************************)
ConnCompanyPool ==
    {S("ClickUp"), S("openai labs"), S("Acme Corp"), S("Oscar"), S(""), None}

ConnTitlePool ==
    {S("Senior Product Manager, AI Platform"), S("Growth Marketing Lead"),
     S("Data Analyst"), None}

ConnDescriptionPool ==
    {S(""), S("Own the developer platform API for enterprise sales data"),
     S("Gaming retention and engagement"),
     S("Education, training, compliance, security, analytics pipeline"),
     S("Quality data ingestion for healthcare")}

ConnectionInputs ==
    [company : ConnCompanyPool, title : ConnTitlePool, description : ConnDescriptionPool]

FindConnections ==
    /\ sres.status = "init"
    /\ \E r \in {find_connections(sjob.company, sjob.title, sjob.description)} :
           sres' = IF r.raised THEN [status |-> "raised"]
                   ELSE [status |-> "found",
                         relevant_experiences |->
                             r.connections.d["relevant_experiences"].items]
    /\ UNCHANGED <<sjob, flowVars>>

InitConnections ==
    /\ sjob \in ConnectionInputs
    /\ sres = [status |-> "init"]
    /\ FlowIdle

NextConnections == FindConnections

SpecConnections == InitConnections /\ [][NextConnections]_vars

(***************************************************************************)
(* Strings: str.replace, str.find and str.split                            *)
(***************************************************************************)
\* str.find(sub, start) as a 1-based position: 0 when sub does not occur at
\* or after position start
Find(str, sub, start) ==
    LET hits == { i \in start..(Len(str) - Len(sub) + 1) :
                    SubSeq(str, i, i + Len(sub) - 1) = sub }
    IN  IF hits = {} THEN 0 ELSE CHOOSE i \in hits : \A j \in hits : i <= j

\* str.replace(old, new) for a non-empty old: every occurrence, left to right
RECURSIVE Replace(_, _, _)
Replace(str, old, new) ==
    CHOOSE out \in
        { IF p = 0 THEN str
          ELSE SubSeq(str, 1, p - 1) \o new
               \o Replace(SubSeq(str, p + Len(old), Len(str)), old, new) :
            p \in {Find(str, old, 1)} } : TRUE

\* str.split(sep)[0]
SplitFirst(str, sep) ==
    LET p == Find(str, sep, 1) IN IF p = 0 THEN str ELSE SubSeq(str, 1, p - 1)

(***************************************************************************)
(* ApplicationKitParser: the kits                                          *)
(***************************************************************************)
\* company_key = match.group(1).split(' --- ')[0].lower().replace(' ', '_')
role_variant_key(heading) == Replace(Lower(SplitFirst(heading, " --- ")), " ", "_")

\* _extract_role_variants over the blocks the variant pattern matches, a
\* block being its heading, its summary and its bullet lines; a later block
\* with the same key replaces an earlier one
extract_role_variants(blocks) ==
    LET keys == { role_variant_key(blocks[i].heading) : i \in 1..Len(blocks) }
        last(key) == CHOOSE i \in 1..Len(blocks) :
                         /\ role_variant_key(blocks[i].heading) = key
                         /\ \A j \in 1..Len(blocks) :
                                role_variant_key(blocks[j].heading) = key => j <= i
    IN  [key \in keys |->
            [role |-> blocks[last(key)].heading,
             summary |-> blocks[last(key)].summary,
             top_bullets |-> blocks[last(key)].bullets]]

\* _extract_cover_letter_intros over the "- **Company:** intro" lines
extract_cover_letter_intros(lines) ==
    LET key(i) == Replace(Lower(lines[i].company), " ", "_")
        last(k) == CHOOSE i \in 1..Len(lines) :
                       key(i) = k /\ \A j \in 1..Len(lines) : key(j) = k => j <= i
    IN  [k \in { key(i) : i \in 1..Len(lines) } |-> lines[last(k)].intro]

\* _parse_senior_kit: the empty dict when the kit file is missing, else the
\* thirteen keys filled by the _extract_ methods from what the file holds
parse_senior_kit(file) ==
    IF ~file.exists THEN EmptyDict
    ELSE [level |-> "senior",
          header |-> file.header,
          summary |-> file.summary,
          signature_outcomes |-> file.signature_outcomes,
          core_skills |-> file.core_skills,
          experience |-> file.experience,
          education |-> file.education,
          selected_projects |-> file.selected_projects,
          ats_keywords |-> file.ats_keywords,
          role_variants |-> extract_role_variants(file.variant_blocks),
          achievements_bank |-> file.achievements_bank,
          cover_letter_template |-> file.cover_letter_template,
          cover_letter_intros |-> extract_cover_letter_intros(file.intro_lines)]

\* _parse_director_kit: the empty dict when the kit file is missing
parse_director_kit(file) ==
    IF ~file.exists THEN EmptyDict
    ELSE [level |-> "director",
          header |-> file.header,
          summary |-> file.summary,
          executive_summary |-> file.executive_summary,
          portfolio_outcomes |-> file.portfolio_outcomes,
          core_capabilities |-> file.core_capabilities,
          experience |-> file.experience,
          education |-> file.education,
          speaking_media |-> file.speaking_media,
          director_keywords |-> file.director_keywords]

\* kit.get(key, default)
KitGet(kit, key, default) == IF key \in DOMAIN kit THEN kit[key] ELSE default

(***************************************************************************)
(* ApplicationKitParser.get_variant_for_role and get_company_variant       *)
(***************************************************************************)
director_indicators == {"director", "principal", "staff", "head of", "vp", "vice president"}

\* get_variant_for_role with a director result for a company argument
\* naming zillow
get_variant_for_role_ByCompany(job_title, company) ==
    IF ContainsAny(Lower(job_title), director_indicators) THEN "director"
    ELSE IF IsStr(company) /\ Contains(Lower(company.s), "zillow") THEN "director"
    ELSE "senior"

\* job_title a string; company a string or the none value
get_variant_for_role(job_title, company) ==
    IF ContainsAny(Lower(job_title), director_indicators) THEN "director"
    ELSE "senior"

\* the variant stored under a key of role_variants, or the none value
RoleVariant(senior_kit, key) ==
    LET variants == KitGet(senior_kit, "role_variants", EmptyDict)
    IN  IF key \in DOMAIN variants THEN variants[key] ELSE None

get_company_variant(senior_kit, company) ==
    LET company_lower == Lower(company) IN
    IF Contains(company_lower, "sparkplug") THEN RoleVariant(senior_kit, "sparkplug")
    ELSE IF Contains(company_lower, "zillow") THEN RoleVariant(senior_kit, "zillow")
    ELSE IF Contains(company_lower, "crowdstrike")
        THEN RoleVariant(senior_kit, "crowdstrike")
    ELSE IF Contains(company_lower, "nextera") THEN RoleVariant(senior_kit, "nextera")
    ELSE None

(***************************************************************************)
(* EnhancedTemplateEngine.render_resume                                    *)
(***************************************************************************)
\* f"{prefix}{item}" for the items of a list
Prefixed(prefix, items) == [i \in 1..Len(items) |-> prefix \o items[i]]

\* '\n'.join(lines)
RECURSIVE JoinLines(_)
JoinLines(lines) ==
    IF lines = <<>> THEN ""
    ELSE IF Len(lines) = 1 THEN lines[1]
    ELSE lines[1] \o "\n" \o JoinLines(Tail(lines))

\* "Header": name, contact line, blank line
Resume_header(kit) ==
    LET header == KitGet(kit, "header", EmptyDict) IN
    << "**" \o KitGet(header, "name", "[YOUR_NAME]") \o "**",
       KitGet(header, "location", "[CITY], [STATE_ABBR]") \o " * "
         \o KitGet(header, "phone", "[PHONE_NUMBER]") \o " * "
         \o KitGet(header, "email", "[USERNAME]@mpthaker.xyz") \o " * "
         \o KitGet(header, "linkedin", "linkedin.com/in/[USERNAME]"),
       "" >>

\* "Title - use company-specific if available"
Resume_title(kit, company_variant) ==
    LET kit_title == KitGet(KitGet(kit, "header", EmptyDict), "title", "") IN
    IF company_variant # None
    THEN << "**" \o KitGet(company_variant, "role", kit_title) \o "**" >>
    ELSE << "**" \o kit_title \o "**" >>

\* "Summary - use company-specific if available", then a blank line
Resume_summary(kit, company_variant) ==
    IF company_variant # None
    THEN << KitGet(company_variant, "summary", KitGet(kit, "summary", "")), "" >>
    ELSE << KitGet(kit, "summary", ""), "" >>

\* "Executive Summary (for director variant) or Signature Outcomes (for
\* senior)", then a blank line
Resume_outcomes(kit, variant_level, company_variant) ==
    IF variant_level = "director"
    THEN <<"**executive summary (what you get)**">>
         \o Prefixed("- ", KitGet(kit, "executive_summary", <<>>))
         \o <<"", "**select portfolio outcomes**">>
         \o Prefixed("- ", KitGet(kit, "portfolio_outcomes", <<>>))
         \o <<"">>
    ELSE <<"**signature outcomes**">>
         \o (IF company_variant # None
             THEN Prefixed("- ", KitGet(company_variant, "top_bullets", <<>>))
             ELSE <<>>)
         \o Prefixed("- ", SliceTo(KitGet(kit, "signature_outcomes", <<>>), 5))
         \o <<"">>

\* "Core Skills/Capabilities", a blank line, the rule and a blank line; a
\* dict of the kit is the sequence of its (category, items) pairs
Resume_skills(kit, variant_level) ==
    (IF variant_level = "director"
     THEN LET capabilities == KitGet(kit, "core_capabilities", <<>>) IN
          <<"**core capabilities**">>
          \o [i \in 1..Len(capabilities) |->
                "- **" \o capabilities[i].category \o ":** " \o capabilities[i].items]
     ELSE LET skills == KitGet(kit, "core_skills", <<>>) IN
          <<"**core skills**">>
          \o [i \in 1..Len(skills) |->
                "- " \o skills[i].category \o ": " \o skills[i].items])
    \o <<"", "---", "">>

\* the lines of one experience entry, closed by a blank line; the scope of a
\* director entry is a string or the none value
Resume_experience_entry(exp, senior_kit, variant_level, job_description) ==
    << IF variant_level = "director" /\ "scope" \in DOMAIN exp /\ Truthy(exp["scope"])
       THEN "**" \o exp["company"] \o " --- " \o exp["title"] \o "** *"
            \o exp["scope"].s \o "* (" \o exp["dates"] \o ")"
       ELSE "**" \o exp["company"] \o " --- " \o exp["title"] \o "** ("
            \o exp["dates"] \o ")" >>
    \o (IF Contains(Lower(exp["company"]), "lovingly")
        THEN Prefixed("- ", select_achievements(senior_kit, job_description, 6))
        ELSE Prefixed("- ", SliceTo(exp["bullets"], 4)))
    \o <<"">>

\* "Experience section"
RECURSIVE Resume_experience_entries(_, _, _, _)
Resume_experience_entries(exps, senior_kit, variant_level, job_description) ==
    IF exps = <<>> THEN <<>>
    ELSE Resume_experience_entry(Head(exps), senior_kit, variant_level, job_description)
         \o Resume_experience_entries(Tail(exps), senior_kit, variant_level,
                                      job_description)

\* Resume_education placed without its fallback line
Resume_education_NoFallback(kit) ==
    <<"**education**", KitGet(kit, "education", ""), "">>

\* "Education", then a blank line
Resume_education(kit) ==
    <<"**education**",
      KitGet(kit, "education", "Pace University --- BA, English Language & Literature"),
      "">>

\* "Selected projects (for senior) or Speaking & Media (for director)"
Resume_projects(kit, variant_level) ==
    (IF variant_level = "director"
     THEN <<"**speaking & media**">> \o KitGet(kit, "speaking_media", <<>>)
     ELSE <<"**selected projects & ip**">>
          \o Prefixed("- ", KitGet(kit, "selected_projects", <<>>)))
    \o <<"">>

\* "Keywords"
Resume_keywords(kit, variant_level) ==
    IF variant_level = "director"
    THEN <<"**keywords for ats**", KitGet(kit, "director_keywords", "")>>
    ELSE <<"**keywords for ats**", KitGet(kit, "ats_keywords", "")>>

\* resume_lines at the return of render_resume, or raised when a .lower()
\* meets a none value
render_resume_lines(senior_kit, director_kit, job_data) ==
    LET title       == Get(job_data, "title", S(""))
        company     == Get(job_data, "company", S(""))
        description == Get(job_data, "description", S(""))
    IN  IF ~IsStr(title) \/ ~IsStr(company) THEN [raised |-> TRUE]
        ELSE LET variant_level   == get_variant_for_role(title.s, None)
                 kit             == IF variant_level = "director"
                                    THEN director_kit ELSE senior_kit
                 company_variant == get_company_variant(senior_kit, company.s)
                 exps            == KitGet(kit, "experience", <<>>)
             IN  IF exps # <<>> /\ ~IsStr(description) THEN [raised |-> TRUE]
                 ELSE [raised |-> FALSE,
                       lines |->
                           Resume_header(kit)
                        \o Resume_title(kit, company_variant)
                        \o Resume_summary(kit, company_variant)
                        \o Resume_outcomes(kit, variant_level, company_variant)
                        \o Resume_skills(kit, variant_level)
                        \o <<"## experience", "">>
                        \o (IF exps = <<>> THEN <<>>
                            ELSE Resume_experience_entries(exps, senior_kit, variant_level,
                                                           Lower(description.s)))
                        \o Resume_education(kit)
                        \o Resume_projects(kit, variant_level)
                        \o Resume_keywords(kit, variant_level)]

(***************************************************************************)
(* EnhancedTemplateEngine.render_cover_letter                              *)
(***************************************************************************)
\* the fallback template, shortened to its greeting, its first paragraph,
\* the line holding the [Company] placeholder and the two lines that the
\* rewrites touch
fallback_template ==
    "Dear Hiring Manager,\n\nThat's where I do my best work. I operate end-to-end.\n\n"
    \o "**Why [Company], why me**\n\n"
    \o "1) define success metrics (adoption, cycle time, quality).\n"
    \o "2) **Pilot with proof**: 1--2 high-leverage pilots with weekly evals.\n\n"
    \o "Sincerely,\n[YOUR_NAME]"

\* "Find matching intro": the intro for the first known company named in
\* company_lower, or the none value
company_intro_for(senior_kit, company_lower) ==
    LET intros == KitGet(senior_kit, "cover_letter_intros", EmptyDict)
        get(key) == IF key \in DOMAIN intros THEN S(intros[key]) ELSE None
    IN  IF Contains(company_lower, "sparkplug") THEN get("sparkplug")
        ELSE IF Contains(company_lower, "zillow") THEN get("zillow")
        ELSE IF Contains(company_lower, "crowdstrike") THEN get("crowdstrike")
        ELSE IF Contains(company_lower, "nextera") THEN get("nextera")
        ELSE None

\* "Insert company-specific intro if available": after the blank line that
\* ends the first paragraph
insert_company_intro(letter, company_intro) ==
    IF ~Truthy(company_intro) THEN letter
    ELSE LET phrase == Find(letter, "That's where I do my best work.", 1)
             \* a start of -1 counts from the end of the string
             start  == IF phrase > 0 THEN phrase ELSE Len(letter)
             first_para_end == Find(letter, "\n\n", start)
         IN  IF first_para_end = 0 THEN letter
             ELSE SubSeq(letter, 1, first_para_end + 1) \o company_intro.s \o "\n\n"
                  \o SubSeq(letter, first_para_end + 2, Len(letter))

\* customize_plan with three independent ifs
customize_plan_Independent(letter, job_description) ==
    LET a == IF Contains(job_description, "platform")
             THEN Replace(letter, "1--2 high-leverage pilots",
                          "platform capabilities that enable multiple teams")
             ELSE letter
        b == IF Contains(job_description, "data")
             THEN Replace(a, "1--2 high-leverage pilots",
                          "data ingestion and quality pilots with measurable SLAs")
             ELSE a
    IN  IF Contains(job_description, "revenue") \/ Contains(job_description, "growth")
        THEN Replace(b, "adoption, cycle time, quality",
                     "adoption, revenue impact, retention")
        ELSE b

\* "Customize the 90-day plan based on job focus"
customize_plan(letter, job_description) ==
    IF Contains(job_description, "platform")
        THEN Replace(letter, "1--2 high-leverage pilots",
                     "platform capabilities that enable multiple teams")
    ELSE IF Contains(job_description, "data")
        THEN Replace(letter, "1--2 high-leverage pilots",
                     "data ingestion and quality pilots with measurable SLAs")
    ELSE IF Contains(job_description, "revenue") \/ Contains(job_description, "growth")
        THEN Replace(letter, "adoption, cycle time, quality",
                     "adoption, revenue impact, retention")
    ELSE letter

\* render_cover_letter writing the position read from the title into the
\* salutation
render_cover_letter_ByTitle(senior_kit, job_data) ==
    LET company     == Get(job_data, "company", S("Your Company"))
        description == Get(job_data, "description", S(""))
        kit_template == KitGet(senior_kit, "cover_letter_template", "")
        template    == IF kit_template = "" THEN fallback_template ELSE kit_template
    IN  IF ~IsStr(company) \/ ~IsStr(description) THEN [raised |-> TRUE]
        ELSE CHOOSE out \in
                 { [raised |-> FALSE,
                    template |-> template,
                    letter |-> customize_plan(
                                   insert_company_intro(
                                       Replace(Replace(template, "[Company]", company.s),
                                               "[Hiring Manager]",
                                               "Hiring Manager for "
                                               \o Get(job_data, "title", S("the position")).s),
                                       intro),
                                   Lower(description.s))] :
                   intro \in {company_intro_for(senior_kit, Lower(company.s))} } : TRUE

\* the letter render_cover_letter returns, or raised when the company or the
\* description is the none value
render_cover_letter(senior_kit, job_data) ==
    LET company     == Get(job_data, "company", S("Your Company"))
        description == Get(job_data, "description", S(""))
        kit_template == KitGet(senior_kit, "cover_letter_template", "")
        template    == IF kit_template = "" THEN fallback_template ELSE kit_template
    IN  IF ~IsStr(company) \/ ~IsStr(description) THEN [raised |-> TRUE]
        ELSE CHOOSE out \in
                 { [raised |-> FALSE,
                    template |-> template,
                    letter |-> customize_plan(
                                   insert_company_intro(
                                       Replace(Replace(template, "[Company]", company.s),
                                               "[Hiring Manager]", "Hiring Manager"),
                                       intro),
                                   Lower(description.s))] :
                   intro \in {company_intro_for(senior_kit, Lower(company.s))} } : TRUE

(***************************************************************************)
(* Render harness: the parser and the template engine on one job           *)
(***************************************************************************)
\* variant blocks of the senior kit file, as the variant pattern matches them
ZillowBlock ==
    [heading |-> "Zillow --- Senior PM, Data Platform",
     summary |-> "Marketplace data leader.",
     bullets |-> <<"Scaled listing data quality", "Cut search latency">>]
ZillowGroupBlock ==
    [heading |-> "Zillow Group --- Senior PM, Data Platform",
     summary |-> "Marketplace data leader.",
     bullets |-> <<"Scaled listing data quality">>]
CrowdStrikeBlock ==
    [heading |-> "CrowdStrike --- Senior PM, AI",
     summary |-> "Security-minded AI builder.",
     bullets |-> <<"Shipped guardrails with Security/Legal">>]

\* a master template as _extract_cover_letter_template can find it in the kit
kit_template ==
    "Dear [Hiring Manager],\n\nThat's where I do my best work.\n\n"
    \o "[Company] needs 1--2 high-leverage pilots. "
    \o "At [Company] I would measure adoption, cycle time, quality.\n\n[YOUR_NAME]"

\* a senior kit file in which every section is found
SeniorFileFull ==
    [exists |-> TRUE,
     header |-> [name |-> "[YOUR_NAME]", location |-> "[CITY], [STATE_ABBR]",
                 phone |-> "555-0100", email |-> "[USERNAME]@mpthaker.xyz",
                 linkedin |-> "linkedin.com/in/[USERNAME]",
                 title |-> "senior product manager --- ai platforms"],
     summary |-> "Builder-operator with ten years in product.",
     signature_outcomes |-> <<"Outcome 1", "Outcome 2", "Outcome 3", "Outcome 4",
                              "Outcome 5", "Outcome 6">>,
     core_skills |-> << [category |-> "product", items |-> "strategy, discovery"],
                        [category |-> "ai", items |-> "agents, evals"] >>,
     experience |-> << [company |-> "Lovingly", title |-> "Senior PM",
                        dates |-> "2021-2025", bullets |-> <<"Led the platform team">>],
                       [company |-> "Acme", title |-> "PM", dates |-> "2017-2021",
                        bullets |-> <<"B1", "B2", "B3", "B4", "B5">>] >>,
     education |-> "Pace University --- BA",
     selected_projects |-> <<"career companion">>,
     ats_keywords |-> "ai, product, platform",
     variant_blocks |-> <<ZillowBlock, CrowdStrikeBlock>>,
     achievements_bank |-> <<"Mentored five product managers",
                             "Launched LLM experimentation notebook",
                             "Shipped anomaly detection">>,
     cover_letter_template |-> kit_template,
     intro_lines |-> << [company |-> "Zillow", intro |-> "I know marketplaces."] >>]

\* the same file with the Zillow variant under a two-word heading and no
\* master template
SeniorFileZillowGroup ==
    [SeniorFileFull EXCEPT !.variant_blocks = <<ZillowGroupBlock>>,
                           !.cover_letter_template = "",
                           !.intro_lines = <<>>]

\* a senior kit file in which no section pattern matches
SeniorFileBare ==
    [exists |-> TRUE, header |-> EmptyDict, summary |-> "",
     signature_outcomes |-> <<>>, core_skills |-> <<>>, experience |-> <<>>,
     education |-> "", selected_projects |-> <<>>, ats_keywords |-> "",
     variant_blocks |-> <<>>, achievements_bank |-> <<>>,
     cover_letter_template |-> "",
     intro_lines |-> << [company |-> "Zillow", intro |-> "I know marketplaces."] >>]

MissingFile == [exists |-> FALSE]

SeniorFilePool == {SeniorFileFull, SeniorFileZillowGroup, SeniorFileBare, MissingFile}

\* a director kit file in which every section is found
DirectorFileFull ==
    [exists |-> TRUE,
     header |-> [name |-> "[YOUR_NAME]",
                 title |-> "director~track product leader --- ai platforms"],
     summary |-> "Builder-operator accountable to ROI.",
     executive_summary |-> <<"Roadmap to results">>,
     portfolio_outcomes |-> <<"Portfolio 1", "Portfolio 2">>,
     core_capabilities |-> << [category |-> "leadership", items |-> "org design"] >>,
     experience |-> << [company |-> "Lovingly", title |-> "Head of Product",
                        scope |-> S("team of 12"), dates |-> "2021-2025",
                        bullets |-> <<"Led the platform team">>],
                       [company |-> "Acme", title |-> "PM", scope |-> None,
                        dates |-> "2017-2021", bullets |-> <<"B1", "B2">>] >>,
     education |-> "Pace University --- BA",
     speaking_media |-> <<"Podcast guest">>,
     director_keywords |-> "ai strategy, governance"]

DirectorFilePool == {DirectorFileFull, MissingFile}

RenderTitlePool ==
    {S("Director of Product"), S("Senior Product Manager"), S("VP Product"),
     S("MVP Product Manager"), S("Head of AI"), S("Vice President, Data"),
     S("Staff PM"), S("Principal PM"), S("Product Manager"), Absent}

RenderCompanyPool ==
    {S("Zillow Group"), S("ZILLOW GROUP"), S("zillow"), S("CrowdStrike"),
     S("NextEra Energy"), S("Acme Corp"), Absent}

RenderDescriptionPool ==
    {S("Build the Data Platform"), S("Own data quality"), S("Drive revenue growth"),
     S("Growth through a platform"), S("Ship features"), Absent}

\* EnhancedTemplateEngine.__init__: both kits parsed once
RenderInputs ==
    { [job |-> MkDict(j), senior_file |-> sf, director_file |-> df,
       senior_kit |-> parse_senior_kit(sf), director_kit |-> parse_director_kit(df)] :
        j \in [title : RenderTitlePool, company : RenderCompanyPool,
               description : RenderDescriptionPool],
        sf \in SeniorFilePool, df \in DirectorFilePool }

\* self.parser.get_variant_for_role(job_data.get('title', '')), with or
\* without the optional company argument
GetVariantForRole ==
    /\ sres.status = "init"
    /\ \E company \in {None, Get(sjob.job, "company", S(""))} :
           sres' = [status |-> "variant", company |-> company,
                    variant |-> get_variant_for_role(Get(sjob.job, "title", S("")).s,
                                                     company)]
    /\ UNCHANGED <<sjob, flowVars>>

\* self.parser.get_company_variant(job_data.get('company', ''))
GetCompanyVariant ==
    /\ sres.status = "init"
    /\ sres' = [status |-> "company_variant",
                variant |-> get_company_variant(sjob.senior_kit,
                                                Get(sjob.job, "company", S("")).s)]
    /\ UNCHANGED <<sjob, flowVars>>

RenderResume ==
    /\ sres.status = "init"
    /\ \E r \in {render_resume_lines(sjob.senior_kit, sjob.director_kit, sjob.job)} :
           sres' = IF r.raised THEN [status |-> "raised"]
                   ELSE [status |-> "resume", lines |-> r.lines,
                         text |-> JoinLines(r.lines)]
    /\ UNCHANGED <<sjob, flowVars>>

RenderCoverLetter ==
    /\ sres.status = "init"
    /\ \E r \in {render_cover_letter(sjob.senior_kit, sjob.job)} :
           sres' = IF r.raised THEN [status |-> "raised"]
                   ELSE [status |-> "letter", letter |-> r.letter,
                         template |-> r.template]
    /\ UNCHANGED <<sjob, flowVars>>

InitRender ==
    /\ sjob \in RenderInputs
    /\ sres = [status |-> "init"]
    /\ FlowIdle

NextRender == GetVariantForRole \/ GetCompanyVariant \/ RenderResume \/ RenderCoverLetter

SpecRender == InitRender /\ [][NextRender]_vars

(***************************************************************************)
(* CompanyIntelligenceEngine.research_company and its cache                *)
(*                                                                         *)
(* The cache directory is a function from the file keys present to the     *)
(* records stored; time is counted in ticks of HoursPerTick hours.         *)
(***************************************************************************)
\* the last instant of the research harness, in ticks
MaxClock == 4

\* the length of a tick
HoursPerTick == 12

\* f"{company_name.lower().replace(' ', '_')}": the name of the cache file
research_cache_key(company_name) == Replace(Lower(company_name), " ", "_")

\* a cache file can be opened for writing unless its name leads into a
\* directory that does not exist
CacheFileWritable(key) == ~Contains(key, "/")

\* _get_cached_research: the stored record, or None
get_cached_research(cache, company_name) ==
    IF research_cache_key(company_name) \in DOMAIN cache
    THEN cache[research_cache_key(company_name)] ELSE None

\* _is_cache_fresh(cached_data, max_age_hours=24)
is_cache_fresh(cached_data, now) ==
    (now - cached_data.research_date) * HoursPerTick < 24

\* _cache_research: an error on opening the file is only logged
cache_research(cache, company_name, research) ==
    IF CacheFileWritable(research_cache_key(company_name))
    THEN [k \in DOMAIN cache \cup {research_cache_key(company_name)} |->
             IF k = research_cache_key(company_name) THEN research ELSE cache[k]]
    ELSE cache

\* research_company(company_name) at instant now, with what the news API
\* answers: the record returned, the cache left behind, and whether news
\* was fetched and the cache written
research_company(cache, now, news_api_key, company_name, articles) ==
    CHOOSE out \in
        { IF cached # None /\ is_cache_fresh(cached, now)
          THEN [returned |-> cached, cache |-> cache, found |-> cached,
                fetched |-> FALSE, wrote |-> FALSE]
          ELSE LET research == [company |-> company_name, research_date |-> now,
                                recent_news |-> IF news_api_key THEN articles ELSE <<>>]
               IN  [returned |-> research,
                    cache |-> cache_research(cache, company_name, research),
                    found |-> cached,
                    fetched |-> news_api_key,
                    wrote |-> CacheFileWritable(research_cache_key(company_name))] :
            cached \in {get_cached_research(cache, company_name)} } : TRUE

(***************************************************************************)
(* Research harness: calls of research_company as time passes              *)
(***************************************************************************)
\* company names as the flows pass them
ResearchCompanyPool == {"OpenAI", "Openai", "Scale AI", "A/E Networks"}

\* what the news API can answer
ArticlesPool == {<<>>, <<"article">>}

\* research_company(company_name, job_title)
ResearchCompany ==
    /\ sres.status \in {"idle", "researched"}
    /\ \E company_name \in ResearchCompanyPool, articles \in ArticlesPool :
       \E r \in {research_company(sres.cache, sres.now, sjob.news_api_key,
                                  company_name, articles)} :
           sres' = [status |-> "researched", now |-> sres.now, cache |-> r.cache,
                    company |-> company_name, returned |-> r.returned,
                    found |-> r.found, fetched |-> r.fetched, wrote |-> r.wrote,
                    cache_before |-> sres.cache]
    /\ UNCHANGED <<sjob, flowVars>>

\* time passes between two calls
ResearchTick ==
    /\ sres.status \in {"idle", "researched"}
    /\ sres.now < MaxClock
    /\ sres' = [status |-> "idle", now |-> sres.now + 1, cache |-> sres.cache]
    /\ UNCHANGED <<sjob, flowVars>>

InitResearch ==
    /\ sjob \in [news_api_key : BOOLEAN]
    /\ sres = [status |-> "idle", now |-> 0, cache |-> EmptyDict]
    /\ FlowIdle

NextResearch == ResearchCompany \/ ResearchTick

SpecResearch == InitResearch /\ [][NextResearch]_vars

(***************************************************************************)
(* LinkedInScraper                                                         *)
(*                                                                         *)
(* A scraper is its browser ("none" before the first launch, then "open",  *)
(* and "closed" once close() ran: self.browser keeps the closed browser    *)
(* object) and its cache directory, a function from the job ids with a     *)
(* file to the record stored.  Time is counted in ticks of DaysPerTick     *)
(* days.                                                                   *)
(***************************************************************************)
\* the number of URLs handed to scrape_multiple_jobs at most
MaxUrls == 2

\* the last instant of the scraper harness, in ticks
MaxScrapeClock == 2

\* the length of a tick
DaysPerTick == 4

\* the leading decimal digits of a string
RECURSIVE LeadingDigits(_)
LeadingDigits(str) ==
    IF str = "" \/ SubSeq(str, 1, 1) \notin {"0", "1", "2", "3", "4", "5", "6", "7", "8", "9"}
    THEN ""
    ELSE SubSeq(str, 1, 1) \o LeadingDigits(SubSeq(str, 2, Len(str)))

\* _extract_job_id: re.search(r'/jobs/view/(\d+)', url), or None
extract_job_id(url) ==
    LET hits == { p \in 1..(Len(url) - 10) :
                    /\ SubSeq(url, p, p + 10) = "/jobs/view/"
                    /\ LeadingDigits(SubSeq(url, p + 11, Len(url))) # "" }
    IN  IF hits = {} THEN None
        ELSE S(LeadingDigits(SubSeq(url, (CHOOSE p \in hits : \A q \in hits : p <= q) + 11,
                                    Len(url))))

\* job URLs: two spellings of one posting, another posting, and a URL
\* without a job id
ScrapeUrlPool ==
    {"https://www.linkedin.com/jobs/view/111/",
     "https://www.linkedin.com/jobs/view/111/?trk=share",
     "https://www.linkedin.com/jobs/view/222/",
     "https://www.linkedin.com/jobs/search/?currentJobId=333"}

\* _extract_job_id on a URL, worked out once for the URLs of the harness
JobIds == [url \in ScrapeUrlPool |-> extract_job_id(url)]
job_id_of(url) == IF url \in DOMAIN JobIds THEN JobIds[url] ELSE extract_job_id(url)

\* _get_cached_job: the stored record when its age is under 7 days
get_cached_job(cache, now, url) ==
    CHOOSE out \in
        { IF job_id = None THEN None
          ELSE IF job_id.s \notin DOMAIN cache THEN None
          ELSE IF (now - cache[job_id.s]["scraped_at"].n) * DaysPerTick < 7
               THEN D(cache[job_id.s]) ELSE None :
            job_id \in {job_id_of(url)} } : TRUE

\* _cache_job
cache_job(cache, url, data) ==
    CHOOSE out \in
        { IF job_id = None THEN cache
          ELSE [k \in DOMAIN cache \cup {job_id.s} |->
                   IF k = job_id.s THEN data ELSE cache[k]] :
            job_id \in {job_id_of(url)} } : TRUE

\* initialize: a browser is launched only "if not self.browser"
Scraper_initialize(browser) == IF browser = "none" THEN "open" ELSE browser

\* close: page, context and browser are closed; the attributes are kept
Scraper_close(browser) == IF browser = "none" THEN "none" ELSE "closed"

\* what _extract_job_details found on the page
ExtractedDetails ==
    [title |-> S("Senior Product Manager"), company |-> S("Stripe"),
     description |-> S("Build NLP pipelines")]

\* what _extract_public_job_details found after a failed navigation
PublicDetails == [title |-> S("Senior Product Manager"), company |-> S("Stripe")]

\* the record d1 updated with the keys of d2
Updated(d1, d2) ==
    [k \in DOMAIN d1 \cup DOMAIN d2 |-> IF k \in DOMAIN d2 THEN d2[k] ELSE d1[k]]

\* scrape_job with caching of a record whose navigation raised
scrape_job_CachesErrors(browser, cache, now, url, outcome) ==
    CHOOSE out \in
        { IF cached # None
          THEN [result |-> cached.d, browser |-> browser, cache |-> cache,
                navigated |-> FALSE, page_open |-> FALSE, wrote |-> FALSE]
          ELSE LET page     == Scraper_initialize(browser)
                   job_data == [url |-> S(url), scraped_at |-> Num(now),
                                source |-> S("LinkedIn")]
               IN  IF page = "open" /\ outcome = "extracted"
                   THEN LET data == Updated(job_data, ExtractedDetails) IN
                        [result |-> data, browser |-> page,
                         cache |-> cache_job(cache, url, data),
                         navigated |-> TRUE, page_open |-> TRUE,
                         wrote |-> job_id_of(url) # None]
                   ELSE LET failed == Put(job_data, "error", S("navigation failed"))
                            data == IF page = "open" /\ outcome = "raised_with_title"
                                    THEN Updated(failed, PublicDetails) ELSE failed
                        IN  [result |-> data, browser |-> page,
                             cache |-> cache_job(cache, url, data),
                             navigated |-> TRUE, page_open |-> page = "open",
                             wrote |-> job_id_of(url) # None] :
            cached \in {get_cached_job(cache, now, url)} } : TRUE

\* scrape_job(url) at instant now, with what the navigation does on an open
\* page: the record returned, the browser and cache left behind, whether the
\* page was navigated, whether it was open then, and whether the cache was
\* written.  On a closed page the navigation and the fallback both raise.
scrape_job(browser, cache, now, url, outcome) ==
    CHOOSE out \in
        { IF cached # None
          THEN [result |-> cached.d, browser |-> browser, cache |-> cache,
                navigated |-> FALSE, page_open |-> FALSE, wrote |-> FALSE]
          ELSE LET page     == Scraper_initialize(browser)
                   job_data == [url |-> S(url), scraped_at |-> Num(now),
                                source |-> S("LinkedIn")]
               IN  IF page = "open" /\ outcome = "extracted"
                   THEN LET data == Updated(job_data, ExtractedDetails) IN
                        [result |-> data, browser |-> page,
                         cache |-> cache_job(cache, url, data),
                         navigated |-> TRUE, page_open |-> TRUE,
                         wrote |-> job_id_of(url) # None]
                   ELSE LET failed == Put(job_data, "error", S("navigation failed"))
                            data == IF page = "open" /\ outcome = "raised_with_title"
                                    THEN Updated(failed, PublicDetails) ELSE failed
                        IN  [result |-> data, browser |-> page, cache |-> cache,
                             navigated |-> TRUE, page_open |-> page = "open",
                             wrote |-> FALSE] :
            cached \in {get_cached_job(cache, now, url)} } : TRUE

\* the loop of scrape_multiple_jobs: the results and the calls of scrape_job
\* in order, and the browser and cache after the last URL
RECURSIVE scrape_loop(_, _, _, _, _, _, _)
scrape_loop(browser, cache, now, urls, outcomes, results, calls) ==
    IF urls = <<>>
    THEN [results |-> results, calls |-> calls, browser |-> browser, cache |-> cache]
    ELSE CHOOSE out \in
           { scrape_loop(r.browser, r.cache, now, Tail(urls), Tail(outcomes),
                         Append(results, r.result),
                         Append(calls, [navigated |-> r.navigated,
                                        page_open |-> r.page_open, wrote |-> r.wrote])) :
               r \in {scrape_job(browser, cache, now, Head(urls), Head(outcomes))} } : TRUE

\* scrape_multiple_jobs(urls)
scrape_multiple_jobs(browser, cache, now, urls, outcomes) ==
    CHOOSE out \in
        { [results |-> r.results, calls |-> r.calls, cache |-> r.cache,
           browser |-> Scraper_close(r.browser), closes |-> 1] :
            r \in {scrape_loop(Scraper_initialize(browser), cache, now, urls, outcomes,
                               <<>>, <<>>)} } : TRUE

(***************************************************************************)
(* Scraper harness: calls on one LinkedInScraper as time passes            *)
(***************************************************************************)
\* what a navigation on an open page does: the details are extracted, or
\* the navigation raises and the fallback finds a title or nothing
NavigationOutcomes == {"extracted", "raised", "raised_with_title"}

\* the scraper between two calls
ScraperState(browser, cache, now) == [browser |-> browser, cache |-> cache, now |-> now]

\* await scraper.initialize()
ScraperInitialize ==
    /\ sres.status = "scraper"
    /\ sres' = [status |-> "scraper", op |-> "initialize",
                scraper |-> ScraperState(Scraper_initialize(sres.scraper.browser),
                                         sres.scraper.cache, sres.scraper.now)]
    /\ UNCHANGED <<sjob, flowVars>>

\* await scraper.close()
ScraperClose ==
    /\ sres.status = "scraper"
    /\ sres' = [status |-> "scraper", op |-> "close",
                scraper |-> ScraperState(Scraper_close(sres.scraper.browser),
                                         sres.scraper.cache, sres.scraper.now)]
    /\ UNCHANGED <<sjob, flowVars>>

\* await scraper.scrape_job(url)
ScrapeJob ==
    /\ sres.status = "scraper"
    /\ \E url \in ScrapeUrlPool, outcome \in NavigationOutcomes :
       \E r \in {scrape_job(sres.scraper.browser, sres.scraper.cache, sres.scraper.now,
                            url, outcome)} :
           sres' = [status |-> "scraper", op |-> "scrape_job", url |-> url,
                    before |-> sres.scraper, result |-> r.result,
                    navigated |-> r.navigated, page_open |-> r.page_open,
                    wrote |-> r.wrote,
                    scraper |-> ScraperState(r.browser, r.cache, sres.scraper.now)]
    /\ UNCHANGED <<sjob, flowVars>>

\* await scraper.scrape_multiple_jobs(urls)
ScrapeMultipleJobs ==
    /\ sres.status = "scraper"
    /\ \E n \in 1..MaxUrls :
       \E urls \in [1..n -> ScrapeUrlPool], outcomes \in [1..n -> NavigationOutcomes] :
       \E r \in {scrape_multiple_jobs(sres.scraper.browser, sres.scraper.cache,
                                      sres.scraper.now, urls, outcomes)} :
           sres' = [status |-> "scraper", op |-> "scrape_multiple_jobs", urls |-> urls,
                    before |-> sres.scraper, results |-> r.results, calls |-> r.calls,
                    closes |-> r.closes,
                    scraper |-> ScraperState(r.browser, r.cache, sres.scraper.now)]
    /\ UNCHANGED <<sjob, flowVars>>

\* time passes between two calls
ScraperTick ==
    /\ sres.status = "scraper"
    /\ sres.scraper.now < MaxScrapeClock
    /\ sres' = [status |-> "scraper", op |-> "tick",
                scraper |-> ScraperState(sres.scraper.browser, sres.scraper.cache,
                                         sres.scraper.now + 1)]
    /\ UNCHANGED <<sjob, flowVars>>

InitScraper ==
    /\ sjob = EmptyDict
    /\ sres = [status |-> "scraper", op |-> "construct",
               scraper |-> ScraperState("none", EmptyDict, 0)]
    /\ FlowIdle

NextScraper ==
    ScraperInitialize \/ ScraperClose \/ ScrapeJob \/ ScrapeMultipleJobs \/ ScraperTick

SpecScraper == InitScraper /\ [][NextScraper]_vars

(***************************************************************************)
(* Properties of the scorers (checked under SpecScorer and SpecPriority)   *)
(***************************************************************************)
\* a call of one of the two _calculate_match_score copies has returned
Returned == sres.status = "returned" /\ sres.by \in {"adder", "pending"}

\* the lowercased text of a field of the scored record, "" when absent
Field(k) == Lower(Get(sjob, k, S("")).s)

\* no field of the scored record holds the none value
AllStrings == \A k \in DOMAIN sjob : sjob[k].t \in {"str", "dict"}

\* C1: for every job record and every connections result, the score that
\* _calculate_match_score returns lies between 0 and 1 (and for a record
\* whose fields are strings or absent the call does return).
C1_ScoreInUnitInterval ==
    (sres.status # "init" /\ sres.by \in {"adder", "pending"}) =>
        /\ AllStrings => sres.status = "returned"
        /\ sres.status = "returned" => (0 <= sres.score /\ sres.score <= Scale)

C1_Witness == Returned /\ sres.by = "pending" /\ sres.score = Scale

\* C2: the priority is a threshold function of the stored match score in the
\* LinkedIn adder, the pending processor and the discovery engine: HIGH iff
\* score >= 0.70, MEDIUM iff 0.50 <= score < 0.70, LOW otherwise.
C2_PriorityThresholds ==
    sres.status = "bucketed" =>
        /\ (sres.priority = "HIGH") <=> (10 * sres.score >= 7 * Scale)
        /\ (sres.priority = "MEDIUM") <=>
               (10 * sres.score >= 5 * Scale /\ 10 * sres.score < 7 * Scale)
        /\ (sres.priority = "LOW") <=> (10 * sres.score < 5 * Scale)

\* a score of 0.6999 in the discovery engine is MEDIUM
C2_Witness ==
    /\ sres.status = "bucketed" /\ sres.by = "discovery"
    /\ sres.score = 6999 /\ sres.priority = "MEDIUM"

\* the three seniority conditions of the claim, on the scored record
SeniorRule == Contains(Field("seniority_level"), "senior") \/ Contains(Field("title"), "senior")
MidRule ==
    \/ Contains(Field("seniority_level"), "mid")
    \/ Contains(Field("required_experience"), "5")
    \/ Contains(Field("required_experience"), "7")
DirectorRule == Contains(Field("title"), "director") \/ Contains(Field("title"), "principal")

\* C3: the seniority contribution is tiered and the first matching tier
\* wins: (a) senior gives 0.8 x 0.20, else (b) mid or a digit 5 or 7 gives
\* 1.0 x 0.20, else (c) director or principal gives 0.6 x 0.20, else 0.
C3_SeniorityFirstMatchWins ==
    Returned =>
        /\ SeniorRule => sres.parts.seniority = 1600
        /\ (~SeniorRule /\ MidRule) => sres.parts.seniority = 2000
        /\ (~SeniorRule /\ ~MidRule /\ DirectorRule) => sres.parts.seniority = 1200
        /\ (~SeniorRule /\ ~MidRule /\ ~DirectorRule) => sres.parts.seniority = 0

\* a record that satisfies (a) and (b) at once
C3_Witness ==
    Returned /\ sres.by = "adder" /\ SeniorRule /\ MidRule /\ sres.parts.seniority = 1600

\* the job of the end-to-end scenario, with a requirement of 5 years
IsScenario ==
    /\ Get(sjob, "title", None) = S("Senior Product Manager, AI Platform")
    /\ Get(sjob, "company", None) = S("OpenAI")
    /\ Get(sjob, "location", None) = S("Remote")
    /\ Get(sjob, "workplace_type", None) = S("Remote")

\* C4 as claimed: for the scenario job the seniority contribution is
\* 1.0 x 0.20, by the mid rule via the digit 5.
C4_Original_ScenarioSeniorityFull ==
    (Returned /\ IsScenario /\ Contains(Field("required_experience"), "5")) =>
        sres.parts.seniority = 2000

\* C4 as amended: for the scenario job the seniority contribution is
\* 0.8 x 0.20 = 0.16, by rule (a): "senior" in the title wins over the digit 5.
C4_ScenarioSeniority ==
    (Returned /\ IsScenario /\ Contains(Field("required_experience"), "5")) =>
        sres.parts.seniority = 1600

C4_Witness ==
    /\ Returned /\ IsScenario /\ Contains(Field("required_experience"), "5")
    /\ "seniority_level" \notin DOMAIN sjob
    /\ sres.parts.seniority = 1600

\* C5: for the scenario job with a description mentioning machine learning
\* and LLM, the title contribution is 0.25, the technical contribution 0.25,
\* the location contribution 0.15, and the priority is HIGH.
C5_ScenarioOutcome ==
    (Returned /\ IsScenario /\ Contains(Field("description"), "machine learning")
              /\ Contains(Field("description"), "llm")) =>
        /\ sres.parts.title = 2500
        /\ sres.parts.technical = 2500
        /\ sres.parts.location = 1500
        /\ sres.priority = "HIGH"

C5_Witness ==
    /\ Returned /\ sres.by = "adder" /\ IsScenario
    /\ Contains(Field("description"), "machine learning")
    /\ Contains(Field("description"), "llm")
    /\ sres.priority = "HIGH" /\ sres.score = 8100

\* the keywords of the claim and the number of them in a lowercased text
ClaimKeywords ==
    {"ai", "artificial intelligence", "machine learning", "llm", "genai",
     "generative", "nlp", "deep learning"}
Matched(text) == Cardinality({kw \in ClaimKeywords : Contains(text, kw)})

\* the scorer that produced sres, on another record
SameScorer(job) ==
    IF sres.by = "adder" THEN LinkedInJobAdder_calculate_match_score(job)
    ELSE PendingJobProcessor_calculate_match_score(job)

\* C6: the technical contribution is 0, 0.7 x 0.25 or 0.25 for 0, 1 or at
\* least 2 distinct keywords in the lowercased description, and a
\* description with at least as many keywords, all other fields fixed,
\* gives at least the same technical contribution and score.
C6_TechnicalByKeywordCount ==
    Returned =>
        /\ sres.parts.technical =
               (IF Matched(Field("description")) = 0 THEN 0
                ELSE IF Matched(Field("description")) = 1 THEN 1750 ELSE 2500)
        /\ \A d \in DescriptionPool \cup {S("Maintain billing")} :
               Matched(Lower(d.s)) >= Matched(Field("description")) =>
                   \E other \in {SameScorer(Put(sjob, "description", d))} :
                       /\ other.technical >= sres.parts.technical
                       /\ other.score >= sres.score

\* one keyword only, and two by the substring "ai" of "genai"
C6_Witness ==
    /\ Returned /\ sres.by = "adder"
    /\ Matched(Field("description")) = 1 /\ sres.parts.technical = 1750
    /\ Matched(Lower("Ship GenAI features")) = 2

\* C7: the title, location and personal-connection contributions follow the
\* reference rules.
C7_TitleLocationConnection ==
    Returned =>
        /\ sres.parts.title =
               (IF Contains(Field("title"), "product manager") THEN 1750 ELSE 0)
             + (IF \E term \in {"senior", "staff", "principal", "lead"} :
                       Contains(Field("title"), term) THEN 750 ELSE 0)
        /\ sres.parts.location =
               (IF Contains(Field("location"), "remote")
                   \/ Contains(Field("workplace_type"), "remote") THEN 1500
                ELSE IF Contains(Field("location"), "new york")
                        \/ Contains(Field("location"), "nyc")
                        \/ Contains(Field("location"), "ny,") THEN 1200
                ELSE IF Contains(Field("workplace_type"), "hybrid") THEN 900
                ELSE 0)
        /\ sres.parts.personal =
               (IF "personal_connections" \in DOMAIN sjob
                   /\ "relevant_experiences" \in DOMAIN sjob["personal_connections"].d
                   /\ Len(sjob["personal_connections"].d["relevant_experiences"].items) > 0
                THEN 1500 ELSE 0)

\* a New York job with a remote workplace gets the full location weight
C7_Witness ==
    /\ Returned /\ sres.by = "adder"
    /\ Contains(Field("location"), "new york") /\ Contains(Field("workplace_type"), "remote")
    /\ sres.parts.location = 1500 /\ sres.parts.title = 1750 /\ sres.parts.personal = 1500

\* C8: the five weights sum to 1.0 and the sum of the five contributions
\* never exceeds 1.0, so min(score, 1.0) returns the sum unchanged.
C8_ClampNeverActs ==
    /\ Adder_weights.title_match + Adder_weights.seniority_match
         + Adder_weights.technical_match + Adder_weights.location_match
         + Adder_weights.personal_connection = Scale
    /\ Pending_weights.title_match + Pending_weights.seniority_match
         + Pending_weights.technical_match + Pending_weights.location_match
         + Pending_weights.personal_connection = Scale
    /\ Returned => (sres.raw <= Scale /\ sres.score = sres.raw)

\* every contribution at its full weight
C8_Witness == Returned /\ sres.by = "adder" /\ sres.raw = Scale

\* C9 as claimed: scoring has no error outcome, and a record with every
\* field absent scores 0 with priority LOW.
C9_ScoringNeverRaises ==
    /\ sres.status # "raised"
    /\ (Returned /\ sjob = EmptyDict) => (sres.score = 0 /\ sres.priority = "LOW")

(***************************************************************************)
(* Properties of the flows (checked under Spec)                            *)
(***************************************************************************)
\* an earlier event of the same job is the given call
PrecededBy(i, call) ==
    \E j \in 1..(i - 1) : events[j].call = call /\ events[j].url = events[i].url

\* the scorer of the running LinkedIn flow
FlowScorer(job) ==
    IF flow = "adder" THEN LinkedInJobAdder_calculate_match_score(job)
    ELSE PendingJobProcessor_calculate_match_score(job)

\* the current job of a LinkedIn flow has its match score and priority
LinkedInScored ==
    flow \in {"adder", "pending"} /\ pc \in {"generate", "tracker_docs", "tracker_only"}

\* C10 as claimed: in every flow, find_connections is called for a job
\* before that job's match score is computed.
C10_Original_ConnectionsBeforeScoreEverywhere ==
    \A i \in 1..Len(events) :
        events[i].call = "score" => PrecededBy(i, "find_connections")

\* C10 as amended: in the LinkedIn adder and the pending processor,
\* find_connections is called for a job before its match score is computed,
\* and the score that decides the priority includes the personal-connection
\* term for the relevant_experiences found for that job; in the discovery
\* engine the job is scored before find_connections is called for it.
C10_ConnectionsBeforeScore ==
    /\ flow \in {"adder", "pending"} =>
           \A i \in 1..Len(events) :
               events[i].call = "score" => PrecededBy(i, "find_connections")
    /\ LinkedInScored =>
           \E found \in {find_connections(Get(cur, "company", S("")),
                                          Get(cur, "title", S("")),
                                          Get(cur, "description", S("")))},
              r \in {FlowScorer(cur)} :
               /\ ~found.raised /\ ~r.raised
               /\ r.personal =
                      (IF Len(found.connections.d["relevant_experiences"].items) > 0
                       THEN 1500 ELSE 0)
               /\ cur["match_score"] = Num(r.score)
               /\ (cur["priority"] = S("HIGH")) <=> (r.score >= 7000)
               /\ (cur["priority"] = S("LOW")) <=> (r.score < 5000)
    /\ flow = "discovery" =>
           \A i \in 1..Len(events) :
               events[i].call = "find_connections" => PrecededBy(i, "score")

\* a job of the adder whose connections lift it from MEDIUM to HIGH
C10_Witness ==
    /\ flow = "adder" /\ pc = "generate"
    /\ Len(cur["personal_connections"].d["relevant_experiences"].items) > 0
    /\ cur["priority"] = S("HIGH")
    /\ cur["match_score"].n - 1500 < 7000
    /\ \E i \in 1..Len(events) :
           /\ events[i] = Event("score", cur)
           /\ PrecededBy(i, "find_connections")

(***************************************************************************)
(* Properties of the content selection (checked under SpecSelect and       *)
(* SpecConnections)                                                        *)
(***************************************************************************)
\* the bank select_achievements reads from the kit
BankOf(kit) == IF "achievements_bank" \in DOMAIN kit THEN kit["achievements_bank"] ELSE <<>>

\* how often an item occurs in a list
Occurrences(seq, x) == Cardinality({i \in 1..Len(seq) : seq[i] = x})

Selected == sres.status \in {"selected", "reselected"}

\* C11: for every description, bank and count (a natural number),
\* select_achievements returns at most count items, each an item of the bank
\* and none more often than the bank holds it; the empty list for an empty
\* bank; and all bank items when count is at least the bank size.
C11_SelectionWithinBank ==
    Selected =>
        LET bank == BankOf(sjob.kit) IN
        /\ Len(sres.out) <= sjob.count
        /\ \A i \in 1..Len(sres.out) :
               Occurrences(sres.out, sres.out[i]) <= Occurrences(bank, sres.out[i])
        /\ bank = <<>> => sres.out = <<>>
        /\ sjob.count >= Len(bank) =>
               /\ Len(sres.out) = Len(bank)
               /\ \A i \in 1..Len(bank) :
                      Occurrences(sres.out, bank[i]) = Occurrences(bank, bank[i])

\* a bank with a repeated item, cut to fewer items than it holds
C11_Witness ==
    /\ Selected
    /\ Len(sres.out) = sjob.count /\ Len(BankOf(sjob.kit)) > sjob.count
    /\ \E i, j \in 1..Len(BankOf(sjob.kit)) :
           i # j /\ BankOf(sjob.kit)[i] = BankOf(sjob.kit)[j]

\* the pairs (category keyword, indicator) of the keyword map
KeywordPairs ==
    UNION { { <<keyword_mapping[k].keyword, keyword_mapping[k].indicators[i]>> :
                i \in 1..Len(keyword_mapping[k].indicators) } :
            k \in 1..Len(keyword_mapping) }

\* the score of an achievement: the number of pairs whose keyword occurs in
\* the lowercased description and whose indicator occurs, letter case
\* aside, in the achievement
ReferenceScore(description, achievement) ==
    CHOOSE n \in
        { Cardinality({ p \in KeywordPairs :
                          Contains(d, p[1]) /\ Contains(a, Lower(p[2])) }) :
            d \in {Lower(description)}, a \in {Lower(achievement)} } : TRUE

\* the scores of the bank items, in bank order
ReferenceScores(description, bank) ==
    [i \in 1..Len(bank) |-> ReferenceScore(description, bank[i])]

\* the position that item i takes when the items are ordered by score
\* descending, equal scores in their original order
ReferenceRank(scores, i) ==
    1 + Cardinality({ j \in DOMAIN scores :
                        scores[j] > scores[i] \/ (scores[j] = scores[i] /\ j < i) })

\* C12: select_achievements returns the first count items of the bank
\* ordered by score descending, the score being the number of matching
\* (category, indicator) pairs and equal scores keeping the bank order; a
\* second call with the same inputs returns the same list.
C12_StableTopByScore ==
    /\ Selected =>
           \E bank \in {BankOf(sjob.kit)} :
           \E scores \in {ReferenceScores(sjob.description, bank)} :
               /\ Len(sres.out) = Min(sjob.count, Len(bank))
               /\ \A i \in 1..Len(bank) :
                      \E rank \in {ReferenceRank(scores, i)} :
                          rank <= Len(sres.out) => sres.out[rank] = bank[i]
    /\ sres.status = "reselected" => sres.again = sres.out

\* two calls on a bank whose best item is not its first and whose first two
\* items tie
C12_Witness ==
    /\ sres.status = "reselected" /\ Len(sres.out) >= 3
    /\ LET bank == BankOf(sjob.kit) IN
       /\ bank[1] # bank[2] /\ sres.out[1] = bank[3]
       /\ sres.out[2] = bank[1] /\ sres.out[3] = bank[2]
       /\ ReferenceScore(sjob.description, bank[1])
            = ReferenceScore(sjob.description, bank[2])
       /\ ReferenceScore(sjob.description, bank[3])
            > ReferenceScore(sjob.description, bank[1])

\* the text find_connections searches: title, description and company,
\* lowercased
ReferenceJobText ==
    Lower(Format(sjob.title) \o " " \o Format(sjob.description) \o " "
          \o Format(sjob.company))

\* relevanceScore of the experience records, in table order: the number of
\* the record's keywords that occur in the text, plus 2 when one of the
\* record's companies occurs, letter case aside, in the job's company name
ReferenceRelevance ==
    CHOOSE scores \in
        { [i \in 1..Len(experiences) |->
             Cardinality({kw \in experiences[i].relevance_keywords : Contains(text, kw)})
             + (IF \E comp \in experiences[i].companies : Contains(company, Lower(comp))
                THEN 2 ELSE 0)] :
            text \in {ReferenceJobText}, company \in {Lower(sjob.company.s)} } : TRUE

Found == sres.status = "found"

\* C13: relevant_experiences holds the experience records with a
\* relevanceScore above 0, ordered by relevanceScore non-increasing with
\* ties in table order, cut to the first 3: never more than 3 entries,
\* never a record with score 0, and no omitted record scores strictly
\* higher than an included one.
C13_TopThreeRelevant ==
    Found =>
        \E scores \in {ReferenceRelevance} :
        \E out \in {sres.relevant_experiences} :
            /\ Len(out) = Min(3, Cardinality({i \in DOMAIN scores : scores[i] > 0}))
            /\ \A i \in DOMAIN scores :
                   \E rank \in {ReferenceRank(scores, i)} :
                       (rank <= Len(out)) => out[rank].type = experiences[i].key
            /\ \A k \in 1..Len(out) :
                   /\ out[k].relevance_score > 0
                   /\ k > 1 => out[k - 1].relevance_score >= out[k].relevance_score
                   /\ \A i \in DOMAIN scores :
                          (\A m \in 1..Len(out) : out[m].type # experiences[i].key)
                              => scores[i] <= out[k].relevance_score

\* more than three relevant records, the second and third of the result
\* tied with an omitted one
C13_Witness ==
    /\ Found /\ Len(sres.relevant_experiences) = 3
    /\ Cardinality({i \in 1..Len(experiences) : ReferenceRelevance[i] > 0}) > 3
    /\ sres.relevant_experiences[2].relevance_score
         = sres.relevant_experiences[3].relevance_score
    /\ \E i \in 1..Len(experiences) :
           /\ \A m \in 1..3 : sres.relevant_experiences[m].type # experiences[i].key
           /\ ReferenceRelevance[i] = sres.relevant_experiences[3].relevance_score

\* C14: the relevance_score find_connections computes for an experience
\* record is the number of the record's relevance keywords occurring in the
\* lowercased title, description and company text, plus 2 if the job's
\* company name matches, letter case aside, one of the record's companies
\* (the record's company occurs in the job's company name), plus 0
\* otherwise; a record is kept exactly when that score is above 0.
C14_RelevanceScore ==
    Found =>
        \E scores \in {ReferenceRelevance} :
        \E out \in {sres.relevant_experiences} :
            /\ \A k \in 1..Len(out) :
                   \E i \in DOMAIN scores :
                       /\ experiences[i].key = out[k].type
                       /\ out[k].relevance_score = scores[i]
            /\ Len(out) < 3 =>
                   \A i \in DOMAIN scores :
                       (scores[i] > 0) <=>
                           (\E k \in 1..Len(out) : out[k].type = experiences[i].key)

\* a record that earns the company bonus through a company name in another
\* letter case, on top of keyword matches
C14_Witness ==
    /\ Found /\ sjob.company = S("openai labs")
    /\ \E k \in 1..Len(sres.relevant_experiences) :
           /\ sres.relevant_experiences[k].type = "ai_transformation"
           /\ sres.relevant_experiences[k].relevance_score >= 3
    /\ \E k \in 1..Len(sres.relevant_experiences) :
           sres.relevant_experiences[k].type # "ai_transformation"

(***************************************************************************)
(* Properties of the renderer (checked under SpecRender)                   *)
(***************************************************************************)
\* the job's title, company and description as the engine reads them
RenderTitle == Get(sjob.job, "title", S("")).s
RenderCompany == Get(sjob.job, "company", S("")).s
RenderDescription == Get(sjob.job, "description", S("")).s

AuthoredOverrides(key) ==
    IF ~sjob.senior_file.exists THEN {}
    ELSE { [role |-> b.heading, summary |-> b.summary, top_bullets |-> b.bullets] :
             b \in { sjob.senior_file.variant_blocks[i] :
                       i \in { i \in 1..Len(sjob.senior_file.variant_blocks) :
                                 Contains(Lower(SplitFirst(
                                     sjob.senior_file.variant_blocks[i].heading, " --- ")),
                                     key) } } }

\* C16 as claimed: get_company_variant matches the company against the keys
\* sparkplug, zillow, crowdstrike and nextera as a case-insensitive
\* substring; for the company 'Zillow Group' in any letter case it returns
\* the zillow override authored in the kit, and for a company containing
\* none of the four keys it returns no override.
C16_CompanyOverrideSelected ==
    sres.status = "company_variant" =>
        /\ (\A key \in {"sparkplug", "zillow", "crowdstrike", "nextera"} :
                ~Contains(Lower(RenderCompany), key)) => sres.variant = None
        /\ (Lower(RenderCompany) = "zillow group" /\ AuthoredOverrides("zillow") # {})
               => sres.variant \in AuthoredOverrides("zillow")

\* the company override and the kit that render_resume works with
ResumeLevel == get_variant_for_role(RenderTitle, None)
ResumeKit == IF ResumeLevel = "director" THEN sjob.director_kit ELSE sjob.senior_kit
ResumeOverride == get_company_variant(sjob.senior_kit, RenderCompany)

\* the generic outcome lines of the kit
GenericOutcomes ==
    IF ResumeLevel = "director"
    THEN Prefixed("- ", KitGet(ResumeKit, "portfolio_outcomes", <<>>))
    ELSE Prefixed("- ", SliceTo(KitGet(ResumeKit, "signature_outcomes", <<>>), 5))

\* the positions of a line in the resume
PositionsOf(line) == { i \in 1..Len(sres.lines) : sres.lines[i] = line }

\* C17 as claimed: in render_resume, for either seniority variant, when a
\* company override exists its title and summary replace the kit's and its
\* top bullets appear ahead of the generic outcomes; without an override the
\* kit's title, summary and outcomes are used.
C17_OverrideTakesPrecedence ==
    sres.status = "resume" =>
        IF ResumeOverride # None
        THEN /\ sres.lines[4] = "**" \o ResumeOverride.role \o "**"
             /\ sres.lines[5] = ResumeOverride.summary
             /\ \A k \in 1..Len(ResumeOverride.top_bullets) :
                    /\ PositionsOf("- " \o ResumeOverride.top_bullets[k]) # {}
                    /\ \A g \in 1..Len(GenericOutcomes) :
                           \A i \in PositionsOf("- " \o ResumeOverride.top_bullets[k]),
                              j \in PositionsOf(GenericOutcomes[g]) : i < j
        ELSE /\ sres.lines[4]
                  = "**" \o KitGet(KitGet(ResumeKit, "header", EmptyDict), "title", "")
                    \o "**"
             /\ sres.lines[5] = KitGet(ResumeKit, "summary", "")
             /\ \A g \in 1..Len(GenericOutcomes) : PositionsOf(GenericOutcomes[g]) # {}

\* the section headings of a resume, in their fixed order
SectionHeadings ==
    IF ResumeLevel = "director"
    THEN <<"**executive summary (what you get)**", "**select portfolio outcomes**",
           "**core capabilities**", "## experience", "**education**",
           "**speaking & media**", "**keywords for ats**">>
    ELSE <<"**signature outcomes**", "**core skills**", "## experience",
           "**education**", "**selected projects & ip**", "**keywords for ats**">>

\* C18: for every job and kit, the empty kit included, render_resume emits
\* each section once and in the order header, title, summary,
\* outcomes/capabilities, skills, experience entries, education,
\* projects-or-speaking, ATS keywords; a section whose kit field is absent is
\* emitted with its fallback (the default name and education line, an empty
\* title, summary or keyword line) and later sections keep their place.
C18_SectionsOnceInOrder ==
    sres.status = "resume" =>
        /\ sres.lines[1]
             = "**" \o KitGet(KitGet(ResumeKit, "header", EmptyDict), "name", "[YOUR_NAME]")
               \o "**"
        /\ sres.lines[3] = "" /\ sres.lines[6] = ""
        /\ Len(sres.lines[4]) >= 4 /\ SubSeq(sres.lines[4], 1, 2) = "**"
        /\ \A h \in 1..Len(SectionHeadings) :
               Cardinality(PositionsOf(SectionHeadings[h])) = 1
        /\ PositionsOf(SectionHeadings[1]) = {7}
        /\ \A h \in 1..(Len(SectionHeadings) - 1) :
               \A i \in PositionsOf(SectionHeadings[h]),
                  j \in PositionsOf(SectionHeadings[h + 1]) : i < j
        /\ \A i \in PositionsOf("**education**") :
               sres.lines[i + 1]
                 = KitGet(ResumeKit, "education",
                          "Pace University --- BA, English Language & Literature")
        /\ PositionsOf("**keywords for ats**") = {Len(sres.lines) - 1}
        /\ sres.lines[Len(sres.lines)]
             = KitGet(ResumeKit, IF ResumeLevel = "director" THEN "director_keywords"
                                 ELSE "ats_keywords", "")
        /\ sres.text = JoinLines(sres.lines)

\* a resume rendered from an empty kit
C18_Witness ==
    /\ sres.status = "resume" /\ ResumeKit = EmptyDict /\ ResumeLevel = "senior"
    /\ sres.lines[1] = "**[YOUR_NAME]**"
    /\ \E i \in PositionsOf("**education**") :
           sres.lines[i + 1] = "Pace University --- BA, English Language & Literature"

\* the number of places at which sub occurs in str
Count(str, sub) ==
    Cardinality({ i \in 1..(Len(str) - Len(sub) + 1) : SubSeq(str, i, i + Len(sub) - 1) = sub })

\* the company name render_cover_letter writes into the letter
LetterCompany == Get(sjob.job, "company", S("Your Company")).s

\* the intros of the senior kit
KitIntros ==
    LET intros == KitGet(sjob.senior_kit, "cover_letter_intros", EmptyDict)
    IN  { intros[k] : k \in DOMAIN intros }

\* letter is base, or base with one intro paragraph of the kit inserted
BaseWithIntro(letter, base) ==
    \/ letter = base
    \/ \E intro \in KitIntros : \E k \in 0..Len(base) :
           letter = SubSeq(base, 1, k) \o intro \o "\n\n" \o SubSeq(base, k + 1, Len(base))

\* the phrases of the 90-day plan are rewritten by the first keyword of the
\* lowercased description, in the order platform, data, revenue or growth,
\* and by that keyword only; with no keyword the letter is a base text with
\* at most an intro added
LetterRewrittenOnce(base) ==
    \E d \in {Lower(RenderDescription)} :
    \E pilots \in {Count(sres.template, "1--2 high-leverage pilots")} :
    \E metrics \in {Count(sres.template, "adoption, cycle time, quality")} :
    \E left \in {[pilots |-> Count(sres.letter, "1--2 high-leverage pilots"),
                  metrics |-> Count(sres.letter, "adoption, cycle time, quality"),
                  platform |-> Count(sres.letter,
                                     "platform capabilities that enable multiple teams"),
                  data |-> Count(sres.letter,
                                 "data ingestion and quality pilots with measurable SLAs"),
                  revenue |-> Count(sres.letter, "adoption, revenue impact, retention")]} :
        IF Contains(d, "platform")
            THEN left = [pilots |-> 0, metrics |-> metrics, platform |-> pilots,
                         data |-> 0, revenue |-> 0]
        ELSE IF Contains(d, "data")
            THEN left = [pilots |-> 0, metrics |-> metrics, platform |-> 0,
                         data |-> pilots, revenue |-> 0]
        ELSE IF Contains(d, "revenue") \/ Contains(d, "growth")
            THEN left = [pilots |-> pilots, metrics |-> 0, platform |-> 0,
                         data |-> 0, revenue |-> metrics]
        ELSE BaseWithIntro(sres.letter, base)

\* every [Company] placeholder of the template carries the company name
CompanySubstituted ==
    /\ Count(sres.letter, "[Company]") = 0
    /\ Count(sres.letter, LetterCompany) >= Count(sres.template, "[Company]")

\* C19 as claimed: render_cover_letter replaces every '[Company]' by the
\* company name and applies exactly one rewrite rule, chosen by the first
\* keyword in the order platform, data, revenue or growth; with no keyword
\* the template is unchanged apart from the company substitution and any
\* company intro.
C19_Original_OnlyCompanySubstituted ==
    sres.status = "letter" =>
        /\ CompanySubstituted
        /\ LetterRewrittenOnce(Replace(sres.template, "[Company]", LetterCompany))

\* C19 as amended: render_cover_letter replaces every '[Company]' by the
\* company name and every '[Hiring Manager]' by 'Hiring Manager', and
\* applies exactly one rewrite rule, chosen by the first keyword in the
\* order platform, data, revenue or growth; with no keyword the template is
\* unchanged apart from these two substitutions and any company intro.
C19_LetterSubstitutedAndRewrittenOnce ==
    sres.status = "letter" =>
        /\ CompanySubstituted
        /\ Count(sres.letter, "[Hiring Manager]") = 0
        /\ LetterRewrittenOnce(Replace(Replace(sres.template, "[Company]", LetterCompany),
                                       "[Hiring Manager]", "Hiring Manager"))

\* a description naming both platform and growth, on the kit's template with
\* two company placeholders, and a letter with the company intro
C19_Witness ==
    /\ sres.status = "letter" /\ sres.template = kit_template
    /\ Contains(Lower(RenderDescription), "platform")
    /\ Contains(Lower(RenderDescription), "growth")
    /\ Count(sres.letter, "ZILLOW GROUP") = 2
    /\ Count(sres.letter, "platform capabilities that enable multiple teams") = 1
    /\ Count(sres.letter, "adoption, cycle time, quality") = 1
    /\ Count(sres.letter, "I know marketplaces.") = 1

\* the column order that test_column_mapping expects
expected_columns ==
    << "Role", "Company", "Status", "Priority", "Date Posted", "Match Score",
       "Deadline", "Date Applied", "Resume Link", "Cover Letter Link", "Notes",
       "Next Action", "Job URL" >>

\* the cell of a row under a column heading
Cell(row, column) ==
    row[CHOOSE i \in 1..Len(expected_columns) : expected_columns[i] = column]

\* a row laid out as the columns expect for the job it was built from
RowAligned(row, job) ==
    /\ Len(row) = Len(expected_columns)
    /\ Len(expected_columns) = 13
    /\ Cell(row, "Role") = Get(job, "title", S(""))
    /\ Cell(row, "Company") = Get(job, "company", S(""))
    /\ Cell(row, "Status") = S("Not Started")
    /\ "priority" \in DOMAIN job /\ Cell(row, "Priority") = job["priority"]
    /\ Cell(row, "Date Posted") \in {S(""), Get(job, "posted_time", S(""))}
    /\ Cell(row, "Match Score") \in
           {S("TBD"), S(FormatPct(Get(job, "match_score", Num(0)).n))}
    /\ Cell(row, "Deadline") = S("") /\ Cell(row, "Date Applied") = S("")
    /\ Cell(row, "Resume Link") \in {S(""), S("https://docs.example/resume")}
    /\ Cell(row, "Cover Letter Link") \in {S(""), S("https://docs.example/cover-letter")}
    /\ Cell(row, "Job URL") = Get(job, "url", S(""))

\* C20: every row a flow appends to the tracker (discovery, the LinkedIn
\* adder with and without documents, the pending processor, the manual add)
\* has exactly 13 cells in the order Role, Company, Status, Priority, Date
\* Posted, Match Score, Deadline, Date Applied, Resume Link, Cover Letter
\* Link, Notes, Next Action, Job URL; its Status is 'Not Started', its
\* Priority the job's priority and its Job URL the job's url (empty for a
\* job without one).
C20_TrackerRowsAligned ==
    [][ /\ \A i \in 1..Len(tracker') :
               Len(tracker'[i]) = 13 /\ tracker'[i][3] = S("Not Started")
        /\ tracker' # tracker =>
               /\ Len(tracker') = Len(tracker) + 1
               /\ SubSeq(tracker', 1, Len(tracker)) = tracker
               /\ RowAligned(tracker'[Len(tracker')], cur) ]_vars

\* the adder has appended a row with document links and a row without
C20_Witness ==
    /\ flow = "adder" /\ Len(tracker) = 2
    /\ tracker[1][9] # S("") /\ tracker[2][9] = S("")
    /\ tracker[1][4] = S("HIGH") /\ tracker[2][4] # S("HIGH")
    /\ tracker[1][13] # tracker[2][13]

\* C21 as claimed: a job record is immutable once scraped; no processing
\* step (company research, find_connections, scoring, priority assignment,
\* rendering, tracker export) changes the record it is given, and
\* score_and_filter_jobs returns the records it was given as they were.
C21_JobRecordImmutable ==
    [][ /\ pc \notin {"start", "loop", "filter"} => cur' = cur
        /\ pc = "filter" => \A i \in 1..Len(queue') :
                                \E j \in 1..Len(queue) : queue'[i] = queue[j] ]_vars

\* what the scorer and the priority assignment of the other copy leave for
\* the job that sres was computed from
OtherCopy ==
    CHOOSE out \in
        { IF r.raised THEN [status |-> "raised"]
          ELSE [status |-> "returned", score |-> r.score,
                priority |-> IF sres.by = "adder"
                             THEN process_scraped_job_priority(r.score)
                             ELSE add_jobs_priority(r.score)] :
            r \in { IF sres.by = "adder"
                    THEN PendingJobProcessor_calculate_match_score(sjob)
                    ELSE LinkedInJobAdder_calculate_match_score(sjob) } } : TRUE

\* C22: the two copies of the scorer agree: for every job record,
\* LinkedInJobAdder._calculate_match_score and
\* PendingJobProcessor._calculate_match_score return the same score (and
\* raise on the same records), and add_jobs and process_scraped_job assign
\* the same priority from it.
C22_ScorerCopiesAgree ==
    (sres.status \in {"returned", "raised"} /\ sres.by \in {"adder", "pending"}) =>
        \E other \in {OtherCopy} :
            /\ other.status = sres.status
            /\ sres.status = "returned" =>
                   other.score = sres.score /\ other.priority = sres.priority

\* the adder scored the scenario job, with every increment earned
C22_Witness ==
    /\ sres.status = "returned" /\ sres.by = "adder"
    /\ sres.score > 5000 /\ sres.priority = "HIGH"
    /\ PendingJobProcessor_calculate_match_score(sjob).score = sres.score
    /\ Truthy(Get(Get(sjob, "personal_connections", D(EmptyDict)).d,
                  "relevant_experiences", None))

\* the threshold bucket of a score
ThresholdBucket(score) ==
    IF score >= 7000 THEN "HIGH" ELSE IF score >= 5000 THEN "MEDIUM" ELSE "LOW"

\* the positions of the jobs that have a title and a company and whose
\* unclamped score lies in the HIGH or MEDIUM bucket
KeptPositions(jobs) ==
    { i \in 1..Len(jobs) :
        /\ Truthy(Get(jobs[i], "title", None)) /\ Truthy(Get(jobs[i], "company", None))
        /\ ThresholdBucket(Discovery_score(jobs[i]).score) \in {"HIGH", "MEDIUM"} }

\* the position in jobs of the record a returned job was made from
SourceIndex(jobs, job) == CHOOSE i \in 1..Len(jobs) : jobs[i]["url"] = job["url"]

\* C23: when score_and_filter_jobs returns, it returns exactly the input
\* jobs that have a non-empty title and company and a priority of HIGH or
\* MEDIUM, never a LOW job, ordered by stored match_score non-increasing
\* with ties in input order; the stored priority of a returned job is the
\* threshold bucket of its stored, clamped match_score, although it was
\* computed from the unclamped sum.
C23_FilteredAndSorted ==
    [][ (pc = "filter" /\ pc' = "loop") =>
            /\ { SourceIndex(queue, queue'[p]) : p \in 1..Len(queue') } = KeptPositions(queue)
            /\ Len(queue') = Cardinality(KeptPositions(queue))
            /\ \A p \in 1..Len(queue') :
                   \E i \in {SourceIndex(queue, queue'[p])} :
                       /\ \A key \in DOMAIN queue[i] : queue'[p][key] = queue[i][key]
                       /\ queue'[p]["match_score"].n
                              = Min(Discovery_score(queue[i]).score, Scale)
                       /\ queue'[p]["priority"].s \in {"HIGH", "MEDIUM"}
                       /\ queue'[p]["priority"].s
                              = ThresholdBucket(queue'[p]["match_score"].n)
            /\ \A p, q \in 1..Len(queue') :
                   p < q =>
                       \/ queue'[p]["match_score"].n > queue'[q]["match_score"].n
                       \/ /\ queue'[p]["match_score"].n = queue'[q]["match_score"].n
                          /\ SourceIndex(queue, queue'[p]) < SourceIndex(queue, queue'[q])
      ]_vars

\* score_and_filter_jobs has returned two jobs with one stored score, the
\* clamped 1.0 of an unclamped 1.1, in input order
C23_Witness ==
    /\ flow = "discovery" /\ pc = "loop" /\ handled = 0 /\ Len(queue) = 2
    /\ queue[1]["match_score"] = Num(Scale) /\ queue[2]["match_score"] = Num(Scale)
    /\ Discovery_score(queue[1]).score > Scale
    /\ queue[1]["priority"] = S("HIGH")
    /\ queue[1]["url"] = S(UrlOf(1)) /\ queue[2]["url"] = S(UrlOf(2))

\* the events that a step adds to the calls made so far
NewEvents == { i \in (Len(events) + 1)..Len(events') : TRUE }

\* C24: application materials are generated only for a job that already
\* carries a computed priority of sufficient level: the renderers are
\* invoked for a job only after its match score and priority were set, only
\* for a HIGH job in the discovery flow and a HIGH or MEDIUM job in the
\* LinkedIn adder and the pending processor, never for a LOW job and never
\* for a job skipped as a failed scrape.
C24_RenderOnlyForPrioritised ==
    [][ \A i \in NewEvents :
            events'[i].call = "render" =>
                /\ events'[i] = Event("render", cur)
                /\ "match_score" \in DOMAIN cur /\ "priority" \in DOMAIN cur
                /\ cur["priority"] = S(ThresholdBucket(cur["match_score"].n))
                /\ flow = "discovery" => cur["priority"] = S("HIGH")
                /\ flow \in {"adder", "pending"} => cur["priority"] \in {S("HIGH"), S("MEDIUM")}
                /\ flow \in {"discovery", "adder", "pending"}
                /\ cur["priority"] # S("LOW")
                /\ ~FailedScrape(cur)
                /\ \E j \in 1..Len(events) : events[j].call = "score"
                                             /\ events[j].url = events'[i].url
                /\ \A j \in 1..Len(events) : events[j].call = "skip"
                                             => events[j].url # events'[i].url
      ]_vars

\* the adder skipped a failed scrape and then rendered for a MEDIUM job
C24_Witness ==
    /\ flow = "adder" /\ Len(events) > 0
    /\ events[Len(events)].call \in {"render", "export"}
    /\ events[Len(events)].url = cur["url"].s
    /\ cur["priority"] = S("MEDIUM")
    /\ \E j \in 1..Len(events) : events[j].call = "skip"

\* the number of tracker-row append attempts made for a URL
AppendAttempts(url) ==
    Cardinality({ i \in 1..Len(events) :
                    /\ events[i].call \in {"append_with_links", "append_without_links"}
                    /\ events[i].url = url })

\* the scraped job with this URL was skipped as a failed scrape
Skipped(url) == \E i \in 1..Len(events) : events[i] = [call |-> "skip", url |-> url]

\* C25: in LinkedInJobAdder.add_jobs every scraped job that is not skipped
\* as a failed scrape causes exactly one tracker-row append attempt, in
\* every path: with document links when the Drive export succeeded, without
\* links when the export reported failure, raised, the rendering raised or
\* the job is LOW; no job is appended twice and no processed job is left
\* without an attempt.
C25_OneAppendPerJob ==
    flow = "adder" =>
        /\ \A n \in 1..handled :
               \E url \in {UrlOf(n)} :
                   /\ AppendAttempts(url) <= 1
                   /\ Skipped(url) => AppendAttempts(url) = 0
                   /\ (~Skipped(url) /\ (n < handled \/ pc \in {"loop", "done"}))
                          => AppendAttempts(url) = 1
        /\ \A i \in 1..Len(events) :
               /\ events[i].call = "append_with_links" =>
                      i > 1 /\ events[i - 1] = [call |-> "export", url |-> events[i].url]
               /\ events[i].call \in {"append_with_links", "append_without_links"} =>
                      \E n \in 1..handled : events[i].url = UrlOf(n)
        /\ (pc = "loop" /\ handled > 0 /\ ~Skipped(UrlOf(handled))
            /\ cur["priority"] = S("LOW")) =>
               /\ events[Len(events)] = Event("append_without_links", cur)
               /\ \A i \in 1..Len(events) :
                      events[i].url = UrlOf(handled) => events[i].call # "render"
        /\ pc = "tracker_docs" => events[Len(events)] = Event("export", cur)

\* the adder has finished two jobs: one exported and appended with links,
\* one whose rendering or export raised and that was appended without
C25_Witness ==
    /\ flow = "adder" /\ pc = "done" /\ handled = 2
    /\ \E i, j \in 1..Len(events) :
           /\ events[i].call = "append_with_links"
           /\ events[j].call = "append_without_links"
           /\ events[j - 1].call \in {"render", "export"}
    /\ AppendAttempts(UrlOf(1)) = 1 /\ AppendAttempts(UrlOf(2)) = 1

(***************************************************************************)
(* Properties of the company research cache (checked under SpecResearch)   *)
(***************************************************************************)
\* C26 as claimed: research_company fetches news only when no cache entry
\* for the company younger than 24 hours exists; on a fresh hit it returns
\* the cached record unchanged without a fetch or a cache write; on a miss
\* or a stale entry it builds a new record and writes it to the cache before
\* returning, so that a second call for the company within 24 hours fetches
\* nothing; and the record returned for a company name always has that name
\* in its company field.
C26_ResearchCachedPerCompany ==
    sres.status = "researched" =>
        /\ IF sres.found # None
              /\ (sres.now - sres.found.research_date) * HoursPerTick < 24
           THEN /\ sres.returned = sres.found
                /\ ~sres.fetched /\ ~sres.wrote
                /\ sres.cache = sres.cache_before
           ELSE /\ sres.returned.research_date = sres.now
                /\ sres.wrote
                /\ get_cached_research(sres.cache, sres.company) = sres.returned
        /\ ~research_company(sres.cache, sres.now, TRUE, sres.company, <<>>).fetched
        /\ sres.returned.company = sres.company

(***************************************************************************)
(* Properties of the scraper (checked under SpecScraper)                   *)
(***************************************************************************)
\* the record carries an 'error' field
HasError(record) == "error" \in DOMAIN record

\* C27: scrape_job writes a cache entry only after an extraction that did
\* not raise; a scrape that raised returns a record with an 'error' field
\* and is never cached, so that the URL is scraped again on the next call; a
\* cache entry younger than 7 days is returned without any navigation and
\* never carries an 'error' field.
C27_OnlySuccessfulScrapesCached ==
    /\ \A id \in DOMAIN sres.scraper.cache : ~HasError(sres.scraper.cache[id])
    /\ sres.op = "scrape_job" =>
           \E hit \in {get_cached_job(sres.before.cache, sres.before.now, sres.url)} :
               /\ hit # None =>
                      /\ ~sres.navigated /\ sres.result = hit.d /\ ~HasError(sres.result)
                      /\ sres.scraper.cache = sres.before.cache
               /\ hit = None => sres.navigated
               /\ sres.scraper.cache # sres.before.cache =>
                      /\ sres.navigated /\ ~HasError(sres.result)
                      /\ sres.scraper.cache[job_id_of(sres.url).s] = sres.result
               /\ sres.wrote <=> (sres.navigated /\ ~HasError(sres.result)
                                  /\ job_id_of(sres.url) # None)
               /\ HasError(sres.result) =>
                      /\ sres.scraper.cache = sres.before.cache
                      /\ get_cached_job(sres.scraper.cache, sres.scraper.now, sres.url) = None
                      /\ \A outcome \in NavigationOutcomes :
                             scrape_job(sres.scraper.browser, sres.scraper.cache,
                                        sres.scraper.now, sres.url, outcome).navigated
    /\ sres.op = "scrape_multiple_jobs" =>
           \A i \in 1..Len(sres.results) :
               /\ sres.calls[i].wrote => sres.calls[i].navigated /\ ~HasError(sres.results[i])
               /\ HasError(sres.results[i]) => sres.calls[i].navigated

\* a navigation on an open page raised while another posting is cached: the
\* failed record is returned with its error and no entry was written for it
C27_Witness ==
    /\ sres.op = "scrape_job" /\ sres.url = "https://www.linkedin.com/jobs/view/111/"
    /\ sres.page_open /\ HasError(sres.result)
    /\ "222" \in DOMAIN sres.scraper.cache
    /\ "111" \notin DOMAIN sres.scraper.cache

\* C28 as claimed: a LinkedInScraper never navigates with a closed page:
\* after any sequence of initialize, scrape_job, scrape_multiple_jobs and
\* close calls, a scrape_job on an uncached URL runs on an open page, and
\* initialize launches a fresh browser whenever the previous one was closed.
C28_NavigatesOnOpenPage ==
    /\ sres.op = "initialize" => sres.scraper.browser = "open"
    /\ sres.op = "scrape_job" => (sres.navigated => sres.page_open)
    /\ sres.op = "scrape_multiple_jobs" =>
           \A i \in 1..Len(sres.calls) : sres.calls[i].navigated => sres.calls[i].page_open

\* C29 as claimed: scrape_multiple_jobs returns exactly one result per input
\* URL, in input order, each carrying that URL, whether the scrape
\* succeeded, was served from the cache or failed (a failure giving a record
\* with an 'error' field), and the browser is closed once after the last
\* URL.
C29_OneResultPerUrl ==
    sres.op = "scrape_multiple_jobs" =>
        /\ Len(sres.results) = Len(sres.urls)
        /\ \A i \in 1..Len(sres.urls) : sres.results[i]["url"] = S(sres.urls[i])
        /\ sres.closes = 1 /\ sres.scraper.browser = "closed"

\* the job of the harness with another title, or with none
WithTitle(job, title) ==
    IF title = Absent THEN [k \in DOMAIN job \ {"title"} |-> job[k]]
    ELSE Put(job, "title", title)

\* C30: the rendered cover letter does not depend on the job title or on
\* the seniority variant: jobs that agree on company and description but
\* differ in title get the same letter, built from the senior kit's template
\* and intros whichever variant the title selects.
C30_LetterIndependentOfTitle ==
    sres.status = "letter" =>
        /\ \A title \in RenderTitlePool :
               \E other \in {render_cover_letter(sjob.senior_kit,
                                                 WithTitle(sjob.job, title))} :
                   ~other.raised /\ other.letter = sres.letter
        /\ sres.template = (IF KitGet(sjob.senior_kit, "cover_letter_template", "") = ""
                            THEN fallback_template
                            ELSE sjob.senior_kit["cover_letter_template"])
        /\ \A intro \in { i \in KitIntros : Count(sres.letter, i) > Count(sres.template, i) } :
               intro = company_intro_for(sjob.senior_kit, Lower(LetterCompany)).s

\* the letter for a job whose title selects the director variant, written
\* from the senior kit's template with the senior kit's intro
C30_Witness ==
    /\ sres.status = "letter" /\ RenderTitle = "Director of Product"
    /\ get_variant_for_role(RenderTitle, None) = "director"
    /\ sjob.director_kit # EmptyDict
    /\ sres.template = kit_template
    /\ Count(sres.letter, "I know marketplaces.") = 1
    /\ sres.letter = render_cover_letter(sjob.senior_kit,
                                         WithTitle(sjob.job, S("Senior Product Manager"))).letter

====
